---- MODULE Spec2Model ----
(***************************************************************************)
(* A model of the jobs_dispatcher repository: the resource algebra         *)
(* (resources_management.rs), the queue engine (queue_management.rs), the  *)
(* dispatcher's admin socket and control loop (dispatcher.rs) and the      *)
(* vertex HTTP handlers (vertex.rs) as the dispatcher's client reaches     *)
(* them (vertex_client.rs).                                                *)
(*                                                                         *)
(* Option<T> is modelled as a sequence of length 0 (None) or 1 (Some(x)).  *)
(* HashMap<K, V> is a function whose DOMAIN is the key set.  f64 priorities *)
(* are integers (every factor of the modelled configurations is integral). *)
(***************************************************************************)
EXTENDS Integers, Sequences, FiniteSets, TLC

\* ------------------------------------------------------------------ bounds

\* The wall clock (now_to_secs) reads 1 at startup and at most MaxTime later.
MaxTime == 2
\* Number of jobs admitted by add_to_queue (fresh dispatcher task ids).
MaxSubmits == 1

\* The vertexes together accept at most MaxAccepted of the jobs posted to them
\* directly.
MaxAccepted == 2

\* A job has at most MaxPhases phases.
MaxPhases == 2

\* The nodes of a compared node set are 0..MaxNode.
MaxNode == 2

\* F at the value of x, which is computed once.
Bind(x, F(_)) == CHOOSE r \in {F(v) : v \in {x}} : TRUE

None == << >>
Some(x) == << x >>
IsSome(o) == Len(o) = 1
Unwrap(o) == o[1]

EmptyMap == [k \in {} |-> 0]
MapInsert(m, k, v) == [x \in (DOMAIN m) \cup {k} |-> IF x = k THEN v ELSE m[x]]
\* HashMap::extend: the entries of other override those of m.
MapExtend(m, other) ==
    [x \in (DOMAIN m) \cup (DOMAIN other) |-> IF x \in DOMAIN other THEN other[x] ELSE m[x]]

\* ------------------------------------------------- resources_management.rs

\* NodesRequirement: Select(set) | Use(size) | Auto
Select(set) == [kind |-> "Select", set |-> set, size |-> 0]
Use(size) == [kind |-> "Use", set |-> {}, size |-> size]
Auto == [kind |-> "Auto", set |-> {}, size |-> 0]

is_zero(n) ==
    CASE n.kind = "Select" -> Cardinality(n.set) = 0
      [] n.kind = "Use" -> n.size = 0
      [] OTHER -> FALSE

IntCmp(a, b) == IF a < b THEN "Less" ELSE IF a = b THEN "Equal" ELSE "Greater"

\* impl PartialOrd for NodesRequirement
nodes_partial_cmp(self, other) ==
    IF self = other THEN "Equal"
    ELSE CASE self.kind = "Auto" ->
                IF is_zero(other) THEN "Less" ELSE "Greater"
           [] self.kind = "Select" ->
                IF other.kind = "Select"
                THEN IF self.set \subseteq other.set THEN "Less" ELSE "Greater"
                ELSE "Greater"
           [] OTHER ->
                IF other.kind = "Select" THEN IntCmp(self.size, Cardinality(other.set))
                ELSE IF other.kind = "Use" THEN IntCmp(self.size, other.size)
                ELSE "Greater"

\* a <= b of a PartialOrd type: partial_cmp is Less or Equal
Le(cmp) == cmp \in {"Less", "Equal"}

countables_get(c, k) == IF k \in DOMAIN c THEN c[k] ELSE 0

\* impl PartialOrd for Countables
countables_partial_cmp(self, other) ==
    IF self = other THEN "Equal"
    ELSE IF \E k \in DOMAIN self : self[k] > countables_get(other, k)
         THEN "Greater" ELSE "Less"

\* impl PartialOrd for Properties
properties_partial_cmp(self, other) ==
    IF self = other THEN "Equal"
    ELSE IF \E k \in DOMAIN self : ~(k \in DOMAIN other /\ other[k] = self[k])
         THEN "Greater" ELSE "Less"

properties_matches(p, k, v) == k \in DOMAIN p /\ p[k] = v

properties_conflict(self, other) ==
    \E key \in DOMAIN self : key \in DOMAIN other /\ other[key] # self[key]

cpus_acceptable(provider, requirement) ==
    Le(nodes_partial_cmp(requirement, Select(provider.cpus)))

mems_acceptable(provider, requirement) ==
    Le(nodes_partial_cmp(requirement, Select(provider.mems)))

countables_acceptable(provider, requirement) ==
    Le(countables_partial_cmp(requirement, provider.countables))

properties_acceptable(provider, requirement) ==
    Le(properties_partial_cmp(requirement, provider.properties))

acceptable(provider, requirement) ==
    /\ cpus_acceptable(provider, requirement.cpus)
    /\ countables_acceptable(provider, requirement.countables)
    /\ properties_acceptable(provider, requirement.properties)

execlusive_mem_acceptable(provider, requirement) ==
    mems_acceptable(provider, requirement.mems) /\ acceptable(provider, requirement)

\* ------------------------------------------------------ queue_management.rs

\* PriorityRule: one record shape for the four variants.
PropertyRule(k, v, offset) == [rule |-> "PropertyRule", k |-> k, v |-> v, a |-> offset, b |-> 0, c |-> 0]
CountableRule(k, offset, ratio) == [rule |-> "CountableRule", k |-> k, v |-> "", a |-> offset, b |-> ratio, c |-> 0]
CpusetRule(select_factor, use_factor, auto_offset) ==
    [rule |-> "CpusetRule", k |-> "", v |-> "", a |-> select_factor, b |-> use_factor, c |-> auto_offset]
WaitingRule(factor) == [rule |-> "WaitingRule", k |-> "", v |-> "", a |-> factor, b |-> 0, c |-> 0]

\* IdControl: Allow(set) | Deny(set)
Allow(ids) == [control |-> "Allow", ids |-> ids]
Deny(ids) == [control |-> "Deny", ids |-> ids]

allow(self, id) ==
    IF self.control = "Allow" THEN id \in self.ids ELSE id \notin self.ids

AmountLimit(max_running, max_queue) == [max_running |-> max_running, max_queue |-> max_queue]

\* The contribution of one rule of QueueConfiguration::priority.
rule_priority(rule, requirement, waited) ==
    CASE rule.rule = "PropertyRule" ->
            IF properties_matches(requirement.properties, rule.k, rule.v) THEN rule.a ELSE 0
      [] rule.rule = "CountableRule" ->
            rule.a + countables_get(requirement.countables, rule.k) * rule.b
      [] rule.rule = "CpusetRule" ->
            CASE requirement.cpus.kind = "Select" -> Cardinality(requirement.cpus.set) * rule.a
              [] requirement.cpus.kind = "Use" -> requirement.cpus.size * rule.b
              [] OTHER -> rule.c
      [] OTHER -> waited * rule.a

RECURSIVE priority_from(_, _, _, _)
priority_from(rules, i, requirement, waited) ==
    IF i > Len(rules) THEN 0
    ELSE rule_priority(rules[i], requirement, waited)
         + priority_from(rules, i + 1, requirement, waited)

\* QueueConfiguration::priority
priority(configuration, requirement, waited) ==
    priority_from(configuration.priority_rule, 1, requirement, waited)

\* QueueConfiguration::can_be_added
\* can_be_added without the conflict test.
can_be_added_ignoring_conflict(configuration, job) ==
    /\ allow(configuration.users, job.uid)
    /\ allow(configuration.groups, job.gid)

can_be_added(configuration, job) ==
    /\ allow(configuration.users, job.uid)
    /\ allow(configuration.groups, job.gid)
    /\ ~properties_conflict(configuration.properties, job.requirement.properties)

\* Iterator::position: the first index whose element satisfies Test, or None.
Position(seq, Test(_)) ==
    Bind({i \in DOMAIN seq : Test(seq[i])},
         LAMBDA hits : IF hits = {} THEN None
                       ELSE Some(CHOOSE i \in hits : \A j \in hits : i <= j))

\* Vec::remove(index)
RemoveAt(seq, index) ==
    [i \in 1..(Len(seq) - 1) |-> IF i < index THEN seq[i] ELSE seq[i + 1]]

RECURSIVE jobs_in_queue_from(_, _)
jobs_in_queue_from(self, i) ==
    IF i > Len(self.jobs) THEN << >>
    ELSE LET e == self.jobs[i]
             rest == jobs_in_queue_from(self, i + 1)
         IN  IF IsSome(e.admitted)
             THEN << [id |-> e.id, job |-> e.job, waited |-> Unwrap(e.admitted),
                      priority |-> priority(self.configuration, e.job.requirement,
                                            Unwrap(e.admitted))] >> \o rest
             ELSE rest

\* Queue::jobs_in_queue
jobs_in_queue(self) == jobs_in_queue_from(self, 1)

CountWhere(seq, Test(_)) == Len(SelectSeq(seq, Test))

\* Some(n) >= limit.map(f): in Rust's ordering of Option, None is below
\* every Some, so the comparison is true when the limit is None.
SomeGe(n, limit) == IF IsSome(limit) THEN n >= Unwrap(limit) ELSE TRUE

MaxQueueOf(limit) == IF IsSome(limit) THEN Some(Unwrap(limit).max_queue) ELSE None
MaxRunningOf(limit) == IF IsSome(limit) THEN Some(Unwrap(limit).max_running) ELSE None

queue_full(self) ==
    SomeGe(Len(jobs_in_queue(self)), MaxQueueOf(self.configuration.global_limit))

queue_full_user(self, uid) ==
    SomeGe(CountWhere(jobs_in_queue(self), LAMBDA e : e.job.uid = uid),
           MaxQueueOf(self.configuration.user_limit))

queue_full_group(self, gid) ==
    SomeGe(CountWhere(jobs_in_queue(self), LAMBDA e : e.job.gid = gid),
           MaxQueueOf(self.configuration.group_limit))

queueable(self, uid, gid) ==
    ~queue_full(self) /\ ~queue_full_user(self, uid) /\ ~queue_full_group(self, gid)

running_full(self) ==
    SomeGe(Len(jobs_in_queue(self)), MaxRunningOf(self.configuration.global_limit))

running_full_user(self, uid) ==
    SomeGe(CountWhere(jobs_in_queue(self), LAMBDA e : e.job.uid = uid),
           MaxRunningOf(self.configuration.user_limit))

running_full_group(self, gid) ==
    SomeGe(CountWhere(jobs_in_queue(self), LAMBDA e : e.job.gid = gid),
           MaxRunningOf(self.configuration.group_limit))

\* Queue::jobs_submitable
jobs_submitable(self) ==
    IF running_full(self) THEN << >>
    ELSE SelectSeq(jobs_in_queue(self),
                   LAMBDA e : ~running_full_user(self, e.job.uid)
                              /\ ~running_full_group(self, e.job.gid))

\* A slip in refresh_jobs: the held entries are promoted without asking
\* queueable.
RECURSIVE refresh_jobs_unconditional(_, _)
refresh_jobs_unconditional(self, now_secs) ==
    LET idx == Position(self.jobs, LAMBDA e : ~IsSome(e.admitted))
    IN  IF IsSome(idx)
        THEN refresh_jobs_unconditional(
                 [self EXCEPT !.jobs[Unwrap(idx)].admitted = Some(now_secs)], now_secs)
        ELSE self

\* Queue::refresh_jobs, with now = now_to_secs()
RECURSIVE refresh_jobs(_, _)
refresh_jobs(self, now_secs) ==
    LET idx == Position(self.jobs,
                        LAMBDA e : ~IsSome(e.admitted) /\ queueable(self, e.job.uid, e.job.gid))
    IN  IF IsSome(idx)
        THEN refresh_jobs([self EXCEPT !.jobs[Unwrap(idx)].admitted = Some(now_secs)], now_secs)
        ELSE self

\* Queue::remove_from_queue: [ret, self]
remove_from_queue(self, task_id) ==
    LET index == Position(self.jobs, LAMBDA e : e.id = task_id)
    IN  IF IsSome(index)
        THEN [ret |-> Some("unit"), self |-> [self EXCEPT !.jobs = RemoveAt(self.jobs, Unwrap(index))]]
        ELSE [ret |-> None, self |-> self]

\* Queue::add_to_running
add_to_running(self, task_id, job) ==
    [self EXCEPT !.running = MapInsert(self.running, task_id, job)]

\* Queue::refresh_running
\* refresh_running that drops nothing.
queue_refresh_running_keeps_all(self, running_ids) == self

queue_refresh_running(self, running_ids) ==
    [self EXCEPT !.running = [id \in (DOMAIN self.running) \cap running_ids |-> self.running[id]]]

\* Queue::add_to_queue, with task_id = Uuid::new_v4(): [ret, self]
queue_add_to_queue(self, job, task_id) ==
    IF can_be_added(self.configuration, job)
    THEN LET job_configuration ==
                 [job EXCEPT !.requirement.properties =
                      MapExtend(job.requirement.properties, self.configuration.properties)]
         IN  [ret |-> Some(task_id),
              self |-> [self EXCEPT !.jobs =
                            Append(self.jobs, [id |-> task_id, job |-> job, admitted |-> None])]]
    ELSE [ret |-> None, self |-> self]

\* Queue::new
NewQueue(configuration) ==
    [configuration |-> configuration, jobs |-> << >>, running |-> EmptyMap]

\* ------------------------------------------------------------- QueueGroup
\* self is the HashMap<String, Queue>; order is the iteration order of that
\* HashMap (a sequence holding every key once).

\* QueueGroup::add_to_queue: [ret, self]
add_to_queue(self, queue, job, task_id) ==
    IF queue \in DOMAIN self
    THEN LET r == queue_add_to_queue(self[queue], job, task_id)
         IN  [ret |-> r.ret, self |-> [self EXCEPT ![queue] = r.self]]
    ELSE [ret |-> None, self |-> self]

\* QueueGroup::remove_job: ret is None, Some("Ok") or Some("Err")
RECURSIVE remove_job_from(_, _, _, _, _)
remove_job_from(self, order, i, task_id, uid) ==
    IF i > Len(order) THEN [ret |-> None, self |-> self]
    ELSE LET queue == self[order[i]]
             index == Position(queue.jobs, LAMBDA e : e.id = task_id)
         IN  IF IsSome(index)
             THEN IF queue.jobs[Unwrap(index)].job.uid = uid \/ uid = 0
                  THEN [ret |-> Some("Ok"),
                        self |-> [self EXCEPT ![order[i]].jobs = RemoveAt(queue.jobs, Unwrap(index))]]
                  ELSE [ret |-> Some("Err"), self |-> self]
             ELSE remove_job_from(self, order, i + 1, task_id, uid)

\* remove_job without the test of the owner.
remove_job_as_root(self, order, task_id, uid) == remove_job_from(self, order, 1, task_id, 0)

remove_job(self, order, task_id, uid) == remove_job_from(self, order, 1, task_id, uid)

\* queues.iter().map(jobs_submitable).flatten(): (task_id, job, priority, name)
RECURSIVE submitables_from(_, _, _)
submitables_from(self, order, i) ==
    IF i > Len(order) THEN << >>
    ELSE LET sub == jobs_submitable(self[order[i]])
         IN  [k \in 1..Len(sub) |->
                 [id |-> sub[k].id, job |-> sub[k].job, priority |-> sub[k].priority,
                  queue |-> order[i]]]
             \o submitables_from(self, order, i + 1)

\* The place of x in a list sorted by descending priority: after every element
\* that does not compare greater (the sort is stable).
InsertDescending(sorted, x) ==
    LET k == Cardinality({i \in 1..Len(sorted) : sorted[i].priority >= x.priority})
    IN  SubSeq(sorted, 1, k) \o << x >> \o SubSeq(sorted, k + 1, Len(sorted))

InsertAscending(sorted, x) ==
    LET k == Cardinality({i \in 1..Len(sorted) : sorted[i].priority <= x.priority})
    IN  SubSeq(sorted, 1, k) \o << x >> \o SubSeq(sorted, k + 1, Len(sorted))

RECURSIVE SortWith(_, _, _)
SortWith(Insert(_, _), seq, n) ==
    IF n = 0 THEN << >>
    ELSE Bind(SortWith(Insert, seq, n - 1), LAMBDA sorted : Insert(sorted, seq[n]))

\* A plausible slip in the comparator: a.partial_cmp(b), ascending.
sort_by_priority_ascending(submitables) ==
    SortWith(InsertAscending, submitables, Len(submitables))

\* submitables.sort_by(|a, b| b.partial_cmp(a).unwrap())
sort_by_priority(submitables) ==
    Bind(submitables, LAMBDA s : SortWith(InsertDescending, s, Len(s)))

\* A slip in try_take_job: the entry is named with the first queue visited,
\* not with the queue it was gathered from.
try_take_job_first_queue(self, order, provider, exlusive_mem) ==
    LET submitables == sort_by_priority(submitables_from(self, order, 1))
        available_job ==
            Position(submitables,
                     LAMBDA e : IF exlusive_mem
                                THEN execlusive_mem_acceptable(provider, e.job.requirement)
                                ELSE acceptable(provider, e.job.requirement))
    IN  IF IsSome(available_job)
        THEN LET e == submitables[Unwrap(available_job)]
             IN  Some([id |-> e.id, job |-> e.job, queue |-> order[1]])
        ELSE None

\* QueueGroup::try_take_job: None or Some([id, job, queue])
try_take_job(self, order, provider, exlusive_mem) ==
    LET submitables == sort_by_priority(submitables_from(self, order, 1))
        available_job ==
            Position(submitables,
                     LAMBDA e : IF exlusive_mem
                                THEN execlusive_mem_acceptable(provider, e.job.requirement)
                                ELSE acceptable(provider, e.job.requirement))
    IN  IF IsSome(available_job)
        THEN LET e == submitables[Unwrap(available_job)]
             IN  Some([id |-> e.id, job |-> e.job, queue |-> e.queue])
        ELSE None

\* A slip in truly_take_job: the entry is looked up but left in the pending
\* list, and the job is filed under the id it was sent with.
truly_take_job_keeps_pending(self, queue, send_id, received_id, job, now_secs) ==
    IF queue \in DOMAIN self
    THEN IF IsSome(Position(self[queue].jobs, LAMBDA e : e.id = send_id))
         THEN [ret |-> Some("unit"),
               self |-> [self EXCEPT ![queue] =
                             refresh_jobs(add_to_running(self[queue], send_id, job), now_secs)]]
         ELSE [ret |-> None, self |-> self]
    ELSE [ret |-> None, self |-> self]

\* A slip in truly_take_job: the result of remove_from_queue is not looked at.
truly_take_job_unchecked(self, queue, send_id, received_id, job, now_secs) ==
    IF queue \in DOMAIN self
    THEN [ret |-> Some("unit"),
          self |-> [self EXCEPT ![queue] =
                        refresh_jobs(add_to_running(remove_from_queue(self[queue], send_id).self,
                                                    received_id, job),
                                     now_secs)]]
    ELSE [ret |-> None, self |-> self]

\* QueueGroup::truly_take_job, with now_secs read by refresh_jobs: [ret, self]
truly_take_job(self, queue, send_id, received_id, job, now_secs) ==
    IF queue \in DOMAIN self
    THEN LET removed == remove_from_queue(self[queue], send_id)
         IN  IF IsSome(removed.ret)
             THEN [ret |-> Some("unit"),
                   self |-> [self EXCEPT ![queue] =
                                 refresh_jobs(add_to_running(removed.self, received_id, job),
                                              now_secs)]]
             ELSE [ret |-> None, self |-> self]
    ELSE [ret |-> None, self |-> self]

\* QueueGroup::refresh_running
refresh_running(self, running_ids) ==
    [name \in DOMAIN self |-> queue_refresh_running(self[name], running_ids)]

\* ------------------------------------------------------------ the inputs

\* Task ids are pairs: <<"p", n>> read from the persistent file, <<"d", n>>
\* generated by the dispatcher (Uuid::new_v4 in Queue::add_to_queue),
\* <<"v", n>> generated by a vertex (Uuid::new_v4 in submit_job).  The body
\* of the vertex's 503 answer is a response text like the others.
PersistedId(n) == << "p", n >>
DispatcherId(n) == << "d", n >>
VertexId(n) == << "v", n >>
ResourcesNotEnough == << "Resources not enough", 0 >>

Requirement(cpus, mems, countables, properties) ==
    [cpus |-> cpus, mems |-> mems, countables |-> countables, properties |-> properties]

Job(uid, gid, requirement) == [uid |-> uid, gid |-> gid, requirement |-> requirement]

ReqOneCpu == Requirement(Use(1), Select({0}), [memory |-> 1], EmptyMap)
ReqTwoCpus == Requirement(Use(2), Auto, EmptyMap, EmptyMap)
ReqPinned == Requirement(Select({0}), Select({0}), EmptyMap, [arch |-> "x86"])

\* The jobs a caller of add_to_queue passes.
JobPool ==
    { Job(1000, 1000, ReqOneCpu), Job(1001, 1001, ReqOneCpu), Job(1000, 1000, ReqPinned) }

\* The jobs the clients of the admin socket send.
SentJobs == { Job(1000, 1000, ReqOneCpu) }

\* The peers of the admin socket: (uid, gid) of the connecting process.
Peers == { [uid |-> 0, gid |-> 0], [uid |-> 1000, gid |-> 1000], [uid |-> 1001, gid |-> 1001] }

\* The queues of the dispatcher's configuration file.
ConfiguredQueues ==
    [ short |->
        [ priority_rule |-> << WaitingRule(1) >>,
          users |-> Deny({}), groups |-> Deny({}),
          properties |-> EmptyMap,
          global_limit |-> Some(AmountLimit(3, 2)),
          user_limit |-> Some(AmountLimit(2, 1)),
          group_limit |-> Some(AmountLimit(3, 2)) ],
      pinned |->
        [ priority_rule |-> << CpusetRule(1, 2, 0), PropertyRule("arch", "x86", 3) >>,
          users |-> Allow({1000}), groups |-> Deny({}),
          properties |-> [arch |-> "x86"],
          global_limit |-> Some(AmountLimit(2, 1)),
          user_limit |-> Some(AmountLimit(2, 1)),
          group_limit |-> Some(AmountLimit(2, 1)) ] ]

QueueNames == DOMAIN ConfiguredQueues

\* A queue name of a request: a configured queue or an unknown one.
QueueArgs == QueueNames \cup {"nosuch"}

Entry(id, job, admitted) == [id |-> id, job |-> job, admitted |-> admitted]

\* The contents of the persistent file at startup: queues persisted under
\* their configuration with queued and held entries.
PersistedTwoUsers ==
    [ short |->
        [ configuration |-> ConfiguredQueues["short"],
          jobs |-> << Entry(PersistedId(1), Job(1000, 1000, ReqOneCpu), Some(0)),
                      Entry(PersistedId(2), Job(1001, 1001, ReqOneCpu), Some(1)) >>,
          running |-> EmptyMap ] ]

PersistedBothQueues ==
    [ short |->
        [ configuration |-> ConfiguredQueues["short"],
          jobs |-> << Entry(PersistedId(1), Job(1000, 1000, ReqTwoCpus), Some(0)),
                      Entry(PersistedId(2), Job(1000, 1000, ReqOneCpu), None) >>,
          running |-> EmptyMap ],
      pinned |->
        [ configuration |-> ConfiguredQueues["pinned"],
          jobs |-> << Entry(PersistedId(3), Job(1000, 1000, ReqPinned), Some(1)) >>,
          running |-> EmptyMap ] ]

\* A missing file reads as no persisted queue.
PersistentFiles == { EmptyMap, PersistedBothQueues }

\* The files the callers of the QueueGroup interface start from.
ApiPersistentFiles == { EmptyMap, PersistedTwoUsers, PersistedBothQueues }

\* dispatcher(): Queue::new for every configured queue, then extend(persistent)
StartupQueues(persistent) ==
    MapExtend([name \in QueueNames |-> NewQueue(ConfiguredQueues[name])], persistent)

Permutations2(S) == {o \in [1..Cardinality(S) -> S] : \A x \in S : \E i \in DOMAIN o : o[i] = x}

\* The providers a caller of try_take_job offers.
Providers ==
    { [cpus |-> {0, 1}, mems |-> {0}, countables |-> [memory |-> 2], properties |-> [arch |-> "x86"]],
      [cpus |-> {0}, mems |-> {}, countables |-> [memory |-> 1], properties |-> EmptyMap],
      [cpus |-> {}, mems |-> {0}, countables |-> EmptyMap, properties |-> [arch |-> "x86"]] }

ReceivedIds == { VertexId(1), ResourcesNotEnough }

\* ------------------------------------------------------------ the state

VARIABLES
    queues,        \* QueueGroup: name -> [configuration, jobs, running]
    iter_order,    \* iteration order of the QueueGroup's HashMap
    vertexes,      \* the configured vertexes, in the order the loop visits them
    now,           \* the last value now_to_secs() answered
    issued,        \* number of task ids the dispatcher generated
    claim,         \* the entry try_take_job returned to its caller, if any
    orphaned,      \* ids removed by remove_job while they were claimed
    lock,          \* holder of the RwLock<QueueGroup>: "free" or "loop"
    pc,            \* position of the control loop
    cur,           \* index in vertexes of the vertex the loop is at
    request_free,  \* the provider the vertex's free() answered
    resp,          \* the result of submit_job: None is Err, Some(text) is Ok
    last_connected, \* per vertex: the clock value at its last answer to free()
    vjobs,         \* per vertex: task id -> [status, job, user]
    vissued,       \* number of task ids the vertices generated
    admin,         \* the admin task: [pc, serving], pc "accept", "read" or "dead"
    conn,          \* per client of the admin socket: [state, ucred] of its connection
    request,       \* per client: the request it has finished sending, if any
    answers,       \* per client: the responses written to its connection
    vresp,         \* the answer to the last POST /job sent to a vertex, if any
    run,           \* one supervisor process and its executor: see NoRun
    cmp,           \* the last comparison of a NodesRequirement with a node set, if any
    posts,         \* per handler thread of a vertex: the POST /job it is serving, if any
    file           \* the contents of the dispatcher's persistent file

qvars == << queues, iter_order, vertexes, now, issued >>
lvars == << lock, pc, cur, request_free, resp >>
vvars == << vjobs, vissued >>
avars == << admin, conn, request, answers >>
vars == << queues, iter_order, vertexes, now, issued, claim, orphaned,
           last_connected, lock, pc, cur, request_free, resp, vjobs, vissued,
           admin, conn, request, answers, vresp, run, cmp, posts, file >>

PendingIdsOf(queue) == {queue.jobs[i].id : i \in 1..Len(queue.jobs)}
PendingIds(self) == UNION {PendingIdsOf(self[q]) : q \in DOMAIN self}
RunningIds(self) == UNION {DOMAIN self[q].running : q \in DOMAIN self}

\* Every task id a pending entry ever had.
KnownIds == {PersistedId(n) : n \in 1..3} \cup {DispatcherId(n) : n \in 1..issued}

Vertices == {"v1", "v2", "v3"}

\* The supervisor process of one job and the executor it spawns, before the
\* supervisor is started.  phases: the kinds of the job's ExecutePhase list;
\* time_limit: countables.get("time_limit"); elapsed: the seconds the
\* supervisor has waited; next: the index of the phase the executor is at;
\* executed: the phases the executor has executed with their outcome;
\* executor, supervisor: "none", "running", "exited" or "killed"; code, exit:
\* the exit code of the executor and of the supervisor; cgroup: "none",
\* "created" or "deleted", the cgroup the supervisor builds for the job.
NoRun ==
    [phases |-> << >>, time_limit |-> 0, elapsed |-> 0, next |-> 1, executed |-> << >>,
     executor |-> "none", code |-> 0, supervisor |-> "none", exit |-> 0,
     cgroup |-> "none"]

\* The user names of the vertexes' basic authentication; the dispatcher's
\* VertexConnect carries the first.
DispatcherUser == "dispatcher"
Users == {DispatcherUser, "alice"}

\* The clients that connect to the admin socket.
Clients == {"c1", "c2"}

\* The tasks of the vertex's runtime that serve requests at the same time.
Handlers == {"h1", "h2"}

\* dispatcher(): the state after startup with the persistent file read
Startup(persistent, configured) ==
    /\ queues = StartupQueues(persistent)
    /\ iter_order \in Permutations2(DOMAIN StartupQueues(persistent))
    /\ vertexes = configured
    /\ now = 1
    /\ issued = 0
    /\ claim = None
    /\ orphaned = {}
    /\ lock = "free"
    /\ pc = "free"
    /\ cur = 1
    /\ request_free = None
    /\ resp = None
    /\ last_connected = [v \in Vertices |-> now]
    /\ vjobs = [v \in Vertices |-> EmptyMap]
    /\ vissued = 0
    /\ admin = [pc |-> "accept", serving |-> ""]
    /\ conn = [c \in Clients |-> [state |-> "none", ucred |-> [uid |-> 0, gid |-> 0]]]
    /\ request = [c \in Clients |-> None]
    /\ answers = [c \in Clients |-> << >>]
    /\ vresp = None
    /\ run = NoRun
    /\ cmp = None
    /\ posts = [h \in Handlers |-> None]
    /\ file = persistent

Init == \E persistent \in PersistentFiles : Startup(persistent, << "v1" >>)

ApiInit == \E persistent \in ApiPersistentFiles : Startup(persistent, << "v1" >>)

\* now_to_secs(): the clock is seen only when it is read, and a read answers
\* the last value read or a later one.
ClockReads == now..MaxTime

\* ------------------------------------------- the QueueGroup interface alone
\* Any caller in any order: the contract of each operation.

ApiAddToQueue ==
    \E queue \in QueueArgs, job \in JobPool :
        /\ issued < MaxSubmits
        /\ LET r == add_to_queue(queues, queue, job, DispatcherId(issued + 1))
           IN  /\ queues' = r.self
               /\ issued' = IF IsSome(r.ret) THEN issued + 1 ELSE issued
        /\ UNCHANGED << iter_order, vertexes, now, claim, orphaned, last_connected, lvars, vvars, avars, vresp, run, cmp, posts, file >>

ApiRemoveJob ==
    \E task_id \in KnownIds, uid \in {p.uid : p \in Peers} :
        LET r == remove_job(queues, iter_order, task_id, uid)
        IN  /\ queues' = r.self
            /\ orphaned' = IF r.ret = Some("Ok") /\ IsSome(claim) /\ Unwrap(claim).id = task_id
                           THEN orphaned \cup {task_id} ELSE orphaned
            /\ UNCHANGED << iter_order, vertexes, now, issued, claim, last_connected, lvars, vvars, avars, vresp, run, cmp, posts, file >>

ApiTryTakeJob ==
    \E provider \in Providers, exlusive_mem \in BOOLEAN :
        /\ claim' = try_take_job(queues, iter_order, provider, exlusive_mem)
        /\ UNCHANGED << qvars, orphaned, last_connected, lvars, vvars, avars, vresp, run, cmp, posts, file >>

\* The caller commits the entry it claimed, under the id the vertex answered.
ApiTrulyTakeJob ==
    \E received_id \in ReceivedIds, now_secs \in ClockReads :
        /\ IsSome(claim)
        /\ LET c == Unwrap(claim)
           IN  queues' = truly_take_job(queues, c.queue, c.id, received_id, c.job, now_secs).self
        /\ now' = now_secs
        /\ claim' = None
        /\ UNCHANGED << iter_order, vertexes, issued, orphaned, last_connected, lvars, vvars, avars, vresp, run, cmp, posts, file >>

ApiRefreshRunning ==
    \E running_ids \in SUBSET ReceivedIds :
        /\ queues' = refresh_running(queues, running_ids)
        /\ UNCHANGED << iter_order, vertexes, now, issued, claim, orphaned, last_connected, lvars, vvars, avars, vresp, run, cmp, posts, file >>

ApiNext ==
    \/ ApiAddToQueue
    \/ ApiRemoveJob
    \/ ApiTryTakeJob
    \/ ApiTrulyTakeJob
    \/ ApiRefreshRunning

ApiSpec == ApiInit /\ [][ApiNext]_vars

\* ------------------------------------------------------------- vertex.rs
\* The handlers get_free, get_jobs and submit_job, reached by the three
\* calls of VertexClient under the one user name the dispatcher holds.

\* VertexConfig.resources
VertexResources ==
    [ v1 |-> [cpus |-> {0, 1}, mems |-> {0}, countables |-> [memory |-> 2],
              properties |-> [arch |-> "x86"]],
      v2 |-> [cpus |-> {0}, mems |-> {0}, countables |-> [memory |-> 1],
              properties |-> [arch |-> "arm"]],
      v3 |-> [cpus |-> {0, 1, 2, 3}, mems |-> {0}, countables |-> [memory |-> 8],
              properties |-> EmptyMap] ]

RunningJobs(jobs) == {id \in DOMAIN jobs : jobs[id].status = "Running"}

\* The demand for countable k of the jobs with the ids in S.
RECURSIVE CountableDemand(_, _, _)
CountableDemand(jobs, S, k) ==
    IF S = {} THEN 0
    ELSE LET x == CHOOSE y \in S : TRUE
         IN  countables_get(jobs[x].job.requirement.countables, k)
             + CountableDemand(jobs, S \ {x}, k)

Max0(n) == IF n < 0 THEN 0 ELSE n

\* current_free: None when take_set panics (a Running job whose cpus or mems
\* is not Select), else Some(provider)
current_free(configuration, jobs) ==
    LET running == RunningJobs(jobs)
        req(id) == jobs[id].job.requirement
    IN  IF \E id \in running : req(id).cpus.kind # "Select" \/ req(id).mems.kind # "Select"
        THEN None
        ELSE LET keys == (DOMAIN configuration.countables)
                         \cup UNION {DOMAIN req(id).countables : id \in running}
             IN  Some([cpus |-> configuration.cpus \ UNION {req(id).cpus.set : id \in running},
                       mems |-> configuration.mems \ UNION {req(id).mems.set : id \in running},
                       countables |->
                           [k \in keys |->
                               Max0(countables_get(configuration.countables, k)
                                    - CountableDemand(jobs, running, k))],
                       properties |-> configuration.properties])

\* get_jobs: the entries of the authenticated user, whatever their status
get_jobs(jobs, username) ==
    [id \in {x \in DOMAIN jobs : jobs[x].user = username} |-> jobs[id]]

\* iter.take(size).collect(): size elements of the set in its iteration order
TakeSets(set, size) ==
    {t \in SUBSET set : Cardinality(t) = IF size < Cardinality(set) THEN size ELSE Cardinality(set)}

\* submit_job: the set of possible answers [status, job] of the handler for a
\* free provider; status 200 stores job as Running, status 503 stores nothing
submit_job_answers(free, job) ==
    LET available == [free EXCEPT !.mems = IF free.mems = {} THEN {0} ELSE free.mems]
        requirement == job.requirement
    IN  IF acceptable(available, requirement)
        THEN LET cpus1 == CASE requirement.cpus.kind = "Use" ->
                                  {Select(t) : t \in TakeSets(available.cpus, requirement.cpus.size)}
                            [] requirement.cpus.kind = "Auto" -> {Select(available.cpus)}
                            [] OTHER -> {requirement.cpus}
                 cpus2 == IF requirement.mems.kind = "Use"
                          THEN {Select(t) : t \in TakeSets(available.mems, requirement.mems.size)}
                          ELSE cpus1
             IN  {[status |-> 200, job |-> [job EXCEPT !.requirement.cpus = c]] : c \in cpus2}
        ELSE {[status |-> 503, job |-> job]}

\* The bodies of POST /job: the jobs the clients of a vertex send.
ReqHalf == Requirement(Use(2), Auto, [memory |-> 4], EmptyMap)
ReqUseMem == Requirement(Select({1}), Use(1), EmptyMap, EmptyMap)
VertexJobs ==
    { Job(1000, 1000, ReqOneCpu), Job(1000, 1000, ReqHalf), Job(1001, 1001, ReqUseMem) }

\* submit_job (POST /job) from username with the body job: current_free, the
\* test, the concretization, the insertion of the Running entry and the
\* answer.  A panic of current_free ends the handler with no answer.
VertexSubmit(v, username, job) ==
    /\ vissued < MaxAccepted
    /\ LET free == current_free(VertexResources[v], vjobs[v])
       IN  IF IsSome(free)
           THEN \E answer \in submit_job_answers(Unwrap(free), job) :
                    IF answer.status = 200
                    THEN /\ vjobs' = [vjobs EXCEPT ![v] =
                                          MapInsert(@, VertexId(vissued + 1),
                                                    [status |-> "Running", job |-> answer.job,
                                                     user |-> username])]
                         /\ vissued' = vissued + 1
                         /\ vresp' = Some([status |-> 200, body |-> VertexId(vissued + 1)])
                    ELSE /\ vresp' = Some([status |-> 503, body |-> ResourcesNotEnough])
                         /\ UNCHANGED vvars
           ELSE /\ vresp' = None
                /\ UNCHANGED vvars
    /\ UNCHANGED << qvars, claim, orphaned, last_connected, lvars, avars, run, cmp, posts, file >>

VertexSubmitJob ==
    \E v \in Vertices, username \in Users, job \in VertexJobs : VertexSubmit(v, username, job)

\* A waiter thread that drops the entry when the supervisor exits.
SupervisorExits_removes_entry(v, id, success) ==
    /\ id \in RunningJobs(vjobs[v])
    /\ vjobs' = [vjobs EXCEPT ![v] = [x \in DOMAIN @ \ {id} |-> @[x]]]
    /\ UNCHANGED << qvars, claim, orphaned, last_connected, lvars, vissued, avars, vresp, run, cmp, posts, file >>

\* The waiter thread of the job id on the vertex v: command.wait() returns
\* and the entry is overwritten, Finished on success and Error otherwise.
SupervisorExits(v, id, success) ==
    /\ id \in RunningJobs(vjobs[v])
    /\ vjobs' = [vjobs EXCEPT ![v][id].status = IF success THEN "Finished" ELSE "Error"]
    /\ UNCHANGED << qvars, claim, orphaned, last_connected, lvars, vissued, avars, vresp, run, cmp, posts, file >>

\* The supervisor of a Running job exits: Finished on success, Error otherwise.
SupervisorExit ==
    \E v \in Vertices, success \in BOOLEAN :
        \E id \in DOMAIN vjobs[v] : SupervisorExits(v, id, success)

\* ---------------------------------------------------------- dispatcher.rs

\* DispatcherResponse
Response(kind, arg) == [kind |-> kind, arg |-> arg]

\* The SubmitJob handler without the overwrite of job.uid and job.gid.
handle_submit_job_trusts_request(self, queue, sent, ucred, task_id) ==
    LET submit == add_to_queue(self, queue, sent, task_id)
    IN  [response |-> IF IsSome(submit.ret)
                      THEN Response("SubmitSuccess", Unwrap(submit.ret))
                      ELSE Response("SubmitFailed", ""),
         self |-> submit.self]

\* ClientRequest::handle, SubmitJob(queue, sent) from a peer with the
\* credentials ucred, task_id being the uuid add_to_queue draws:
\* [response, self]
handle_submit_job(self, queue, sent, ucred, task_id) ==
    LET job == IF ucred.uid # 0
               THEN [sent EXCEPT !.uid = ucred.uid, !.gid = ucred.gid]
               ELSE sent
        submit == add_to_queue(self, queue, job, task_id)
    IN  [response |-> IF IsSome(submit.ret)
                      THEN Response("SubmitSuccess", Unwrap(submit.ret))
                      ELSE Response("SubmitFailed", ""),
         self |-> submit.self]

\* ClientRequest::handle, DeleteJob(task_id): [response, self]
handle_delete_job(self, order, task_id, ucred) ==
    LET result == remove_job(self, order, task_id, ucred.uid)
    IN  [response |-> IF IsSome(result.ret)
                      THEN IF Unwrap(result.ret) = "Ok"
                           THEN Response("DeleteSuccess", "")
                           ELSE Response("DeleteFailed", "PermissionDenied")
                      ELSE Response("DeleteFailed", "NotFound"),
         self |-> result.self]

\* The admin task handles a SubmitJob under the write lock.
AdminSubmitJob ==
    \E queue \in QueueArgs, sent \in SentJobs, ucred \in Peers :
        /\ lock = "free"
        /\ issued < MaxSubmits
        /\ LET handled == handle_submit_job(queues, queue, sent, ucred, DispatcherId(issued + 1))
           IN  /\ queues' = handled.self
               /\ issued' = IF handled.response.kind = "SubmitSuccess" THEN issued + 1 ELSE issued
        /\ UNCHANGED << iter_order, vertexes, now, claim, orphaned, last_connected, lvars, vvars, avars, vresp, run, cmp, posts, file >>

\* The admin task handles a DeleteJob under the write lock.
AdminDeleteJob ==
    \E task_id \in PendingIds(queues) \cup RunningIds(queues), ucred \in Peers :
        /\ lock = "free"
        /\ queues' = handle_delete_job(queues, iter_order, task_id, ucred).self
        /\ UNCHANGED << iter_order, vertexes, now, issued, claim, orphaned, last_connected, lvars, vvars, avars, vresp, run, cmp, posts, file >>

\* ------------------------------------------- the admin socket, by connection

\* ClientRequest, and a content serde_json does not parse as one.
SubmitJobRequest(queue, job) ==
    [kind |-> "SubmitJob", queue |-> queue, job |-> job, task_id |-> << >>]
DeleteJobRequest(task_id) ==
    [kind |-> "DeleteJob", queue |-> "", job |-> << >>, task_id |-> task_id]
StatusRequest == [kind |-> "Status", queue |-> "", job |-> << >>, task_id |-> << >>]
Garbage == [kind |-> "garbage", queue |-> "", job |-> << >>, task_id |-> << >>]

\* What the clients write to their connection.
Contents ==
    {SubmitJobRequest(queue, job) : queue \in QueueArgs, job \in SentJobs}
    \cup {DeleteJobRequest(PersistedId(2)), DeleteJobRequest(PersistedId(3))}
    \cup {StatusRequest, Garbage}

\* the end of a connection: the stream is shut down or dropped
Close(c) == conn' = [conn EXCEPT ![c].state = "closed"]

\* stream.write_all(response) and stream.shutdown(), then the next accept()
Answer(c, response) ==
    /\ answers' = [answers EXCEPT ![c] = Append(@, response)]
    /\ Close(c)
    /\ admin' = [pc |-> "accept", serving |-> ""]

\* A client connects to the admin socket.
ClientConnect ==
    \E c \in Clients, ucred \in Peers :
        /\ conn[c].state = "none"
        /\ conn' = [conn EXCEPT ![c] = [state |-> "connected", ucred |-> ucred]]
        /\ UNCHANGED << qvars, claim, orphaned, last_connected, lvars, vvars, admin, request, answers, vresp, run, cmp, posts, file >>

\* A connected client writes its request and shuts down its writing side:
\* read_to_string returns only then.
ClientSend ==
    \E c \in Clients, content \in Contents :
        /\ conn[c].state \in {"connected", "accepted"}
        /\ request[c] = None
        /\ request' = [request EXCEPT ![c] = Some(content)]
        /\ UNCHANGED << qvars, claim, orphaned, last_connected, lvars, vvars, admin, conn, answers, vresp, run, cmp, posts, file >>

\* socket.accept().await answers a connection; the task goes on to
\* get_request(&mut stream).await
AdminAccept ==
    \E c \in Clients :
        /\ admin.pc = "accept"
        /\ conn[c].state = "connected"
        /\ admin' = [pc |-> "read", serving |-> c]
        /\ conn' = [conn EXCEPT ![c].state = "accepted"]
        /\ UNCHANGED << qvars, claim, orphaned, last_connected, lvars, vvars, request, answers, vresp, run, cmp, posts, file >>

\* get_request is Err: the content is not a ClientRequest
AdminInvalidRequest ==
    /\ admin.pc = "read"
    /\ IsSome(request[admin.serving])
    /\ Unwrap(request[admin.serving]).kind = "garbage"
    /\ Answer(admin.serving, Response("InvalidRequest", ""))
    /\ UNCHANGED << qvars, claim, orphaned, last_connected, lvars, vvars, request, vresp, run, cmp, posts, file >>

\* get_request is Ok(SubmitJob(queue, job)): request.handle(..) and the answer
AdminHandleSubmitJob ==
    /\ admin.pc = "read"
    /\ IsSome(request[admin.serving])
    /\ Unwrap(request[admin.serving]).kind = "SubmitJob"
    /\ lock = "free"
    /\ LET content == Unwrap(request[admin.serving])
           handled == handle_submit_job(queues, content.queue, content.job,
                                        conn[admin.serving].ucred, DispatcherId(issued + 1))
       IN  /\ queues' = handled.self
           /\ issued' = IF handled.response.kind = "SubmitSuccess" THEN issued + 1 ELSE issued
           /\ Answer(admin.serving, handled.response)
    /\ UNCHANGED << iter_order, vertexes, now, claim, orphaned, last_connected, lvars, vvars, request, vresp, run, cmp, posts, file >>

\* get_request is Ok(DeleteJob(task_id)): request.handle(..) and the answer
AdminHandleDeleteJob ==
    /\ admin.pc = "read"
    /\ IsSome(request[admin.serving])
    /\ Unwrap(request[admin.serving]).kind = "DeleteJob"
    /\ lock = "free"
    /\ LET content == Unwrap(request[admin.serving])
           handled == handle_delete_job(queues, iter_order, content.task_id,
                                        conn[admin.serving].ucred)
       IN  /\ queues' = handled.self
           /\ Answer(admin.serving, handled.response)
    /\ UNCHANGED << iter_order, vertexes, now, issued, claim, orphaned, last_connected, lvars, vvars, request, vresp, run, cmp, posts, file >>

\* get_request is Ok(Status): request.handle(..) is todo!(), the task panics
\* and the listener and the stream are dropped with it
AdminHandleStatus ==
    /\ admin.pc = "read"
    /\ IsSome(request[admin.serving])
    /\ Unwrap(request[admin.serving]).kind = "Status"
    /\ admin' = [pc |-> "dead", serving |-> ""]
    /\ Close(admin.serving)
    /\ UNCHANGED << qvars, claim, orphaned, last_connected, lvars, vvars, request, answers, vresp, run, cmp, posts, file >>

\* The task spawned for the admin socket.
AdminTask ==
    \/ AdminAccept
    \/ AdminInvalidRequest
    \/ AdminHandleSubmitJob
    \/ AdminHandleDeleteJob
    \/ AdminHandleStatus

AdminInit == Startup(PersistedBothQueues, << "v1" >>)

AdminNext == ClientConnect \/ ClientSend \/ AdminTask

AdminSpec == AdminInit /\ [][AdminNext]_vars

\* The runtime schedules the admin task whenever it can take a step.
AdminFairSpec == AdminSpec /\ WF_vars(AdminTask)

Vertex == vertexes[cur]

\* The advance of the for loop over vertex_status, and of the outer loop.
NextVertex ==
    /\ cur' = IF cur < Len(vertexes) THEN cur + 1 ELSE 1
    /\ pc' = "free"

\* client.free() answered Ok within max_timeout: the write lock is taken
LoopFreeOk ==
    /\ pc = "free"
    /\ lock = "free"
    /\ LET free == current_free(VertexResources[Vertex], vjobs[Vertex])
       IN  /\ IsSome(free)
           /\ request_free' = free
    /\ \E now_micros \in ClockReads :
          /\ last_connected' = [last_connected EXCEPT ![Vertex] = now_micros]
          /\ now' = now_micros
    /\ lock' = "loop"
    /\ pc' = "try"
    /\ UNCHANGED << queues, iter_order, vertexes, issued, claim, orphaned, cur, resp, vvars, avars, vresp, run, cmp, posts, file >>

\* client.free() fails and the loop goes to the next vertex without calling
\* client.jobs().
LoopFreeErr_skips_jobs ==
    /\ pc = "free"
    /\ NextVertex
    /\ UNCHANGED << qvars, claim, orphaned, last_connected, lock, request_free, resp, vvars, avars, vresp, run, cmp, posts, file >>

\* client.free() failed or timed out
LoopFreeErr ==
    /\ pc = "free"
    /\ pc' = "jobs"
    /\ UNCHANGED << qvars, claim, orphaned, last_connected, lock, cur, request_free, resp, vvars, avars, vresp, run, cmp, posts, file >>

\* the head of while let Some(..) = queues.try_take_job(&request_free, false)
LoopTry ==
    /\ pc = "try"
    /\ LET r == try_take_job(queues, iter_order, Unwrap(request_free), FALSE)
       IN  /\ claim' = r
           /\ IF IsSome(r)
              THEN pc' = "submit" /\ UNCHANGED << lock, request_free >>
              ELSE pc' = "jobs" /\ lock' = "free" /\ request_free' = None
    /\ UNCHANGED << qvars, orphaned, last_connected, cur, resp, vvars, avars, vresp, run, cmp, posts, file >>

\* client.submit_job(..).await is Err: the request did not reach the handler,
\* or the handler panicked in current_free
LoopSubmitErr ==
    /\ pc = "submit"
    /\ resp' = None
    /\ claim' = None
    /\ pc' = "try"
    /\ UNCHANGED << qvars, orphaned, last_connected, lock, cur, request_free, vvars, avars, vresp, run, cmp, posts, file >>

\* client.submit_job(..).await is Ok(text): the vertex handled the request
LoopSubmitOk ==
    /\ pc = "submit"
    /\ LET free == current_free(VertexResources[Vertex], vjobs[Vertex])
       IN  /\ IsSome(free)
           /\ \E answer \in submit_job_answers(Unwrap(free), Unwrap(claim).job) :
                 IF answer.status = 200
                 THEN /\ vjobs' = [vjobs EXCEPT ![Vertex] =
                                       MapInsert(@, VertexId(vissued + 1),
                                                 [status |-> "Running", job |-> answer.job,
                                                  user |-> DispatcherUser])]
                      /\ vissued' = vissued + 1
                      /\ resp' = Some(VertexId(vissued + 1))
                 ELSE /\ resp' = Some(ResourcesNotEnough)
                      /\ UNCHANGED vvars
    /\ pc' = "commit"
    /\ UNCHANGED << qvars, claim, orphaned, last_connected, lock, cur, request_free, avars, vresp, run, cmp, posts, file >>

\* if let Ok(resp) = resp { queues.truly_take_job(&queue, &task_id, &resp, &job) }
LoopCommit ==
    /\ pc = "commit"
    /\ \E now_secs \in ClockReads :
          /\ LET c == Unwrap(claim)
             IN  queues' = truly_take_job(queues, c.queue, c.id, Unwrap(resp), c.job,
                                          now_secs).self
          /\ now' = now_secs
    /\ claim' = None
    /\ resp' = None
    /\ pc' = "try"
    /\ UNCHANGED << iter_order, vertexes, issued, orphaned, last_connected, lock, cur, request_free, vvars, avars, vresp, run, cmp, posts, file >>

\* client.jobs() answered Ok within max_timeout
LoopJobsOk ==
    /\ pc = "jobs"
    /\ lock = "free"
    /\ queues' = refresh_running(queues, DOMAIN get_jobs(vjobs[Vertex], DispatcherUser))
    /\ NextVertex
    /\ UNCHANGED << iter_order, vertexes, now, issued, claim, orphaned, last_connected, lock, request_free, resp, vvars, avars, vresp, run, cmp, posts, file >>

\* client.jobs() failed or timed out
LoopJobsErr ==
    /\ pc = "jobs"
    /\ NextVertex
    /\ UNCHANGED << qvars, claim, orphaned, last_connected, lock, request_free, resp, vvars, avars, vresp, run, cmp, posts, file >>

Loop ==
    \/ LoopFreeOk
    \/ LoopFreeErr
    \/ LoopTry
    \/ LoopSubmitErr
    \/ LoopSubmitOk
    \/ LoopCommit
    \/ LoopJobsOk
    \/ LoopJobsErr

Next ==
    \/ AdminSubmitJob
    \/ AdminDeleteJob
    \/ Loop
    \/ SupervisorExit

Spec == Init /\ [][Next]_vars

\* The control loop is a task the runtime keeps running.
FairSpec == Spec /\ WF_vars(Loop)

\* ------------------------------------------------------------ the claims

\* The entries of queue that have the id task_id.
EntriesWithId(queue, task_id) == {i \in 1..Len(queue.jobs) : queue.jobs[i].id = task_id}

\* after is before with the one entry send_id moved from the pending list of
\* queue name to its running map under received_id, everything else kept.
MovedOneEntry(before, after, name, send_id, received_id) ==
    /\ DOMAIN after = DOMAIN before
    /\ \A other \in DOMAIN before \ {name} :
          /\ PendingIdsOf(after[other]) = PendingIdsOf(before[other])
          /\ after[other].running = before[other].running
    /\ PendingIdsOf(after[name]) = PendingIdsOf(before[name]) \ {send_id}
    /\ Len(after[name].jobs) = Len(before[name].jobs) - 1
    /\ DOMAIN after[name].running = DOMAIN before[name].running \cup {received_id}
    /\ Cardinality(DOMAIN after[name].running) = Cardinality(DOMAIN before[name].running) + 1
    /\ \A id \in DOMAIN before[name].running :
          after[name].running[id] = before[name].running[id]

\* C1: a successful truly_take_job moves exactly one entry, the one with id
\* sent_id, from the pending list of the named queue to its running map under
\* received_id and keeps every other pending and running entry of every
\* queue; a truly_take_job that returns None modifies nothing.  Stated for
\* the commit the control loop is about to make with the vertex's answer.
C1_TrulyTakeJobMovesOneEntry ==
    pc = "commit" =>
        \A now_secs \in ClockReads :
            LET c == Unwrap(claim)
                r == truly_take_job(queues, c.queue, c.id, Unwrap(resp), c.job, now_secs)
            IN  IF IsSome(r.ret)
                THEN MovedOneEntry(queues, r.self, c.queue, c.id, Unwrap(resp))
                ELSE r.self = queues

\* C2: try_take_job is a tentative claim: for every provider and in every
\* state the entry it returns is in the pending list of the queue it names,
\* and the call that hands out a claim changes no pending list and no
\* running map.
C2_TryTakeJobIsTentative ==
    /\ [](\A provider \in Providers, exlusive_mem \in BOOLEAN :
             LET r == try_take_job(queues, iter_order, provider, exlusive_mem)
             IN  IsSome(r) =>
                     /\ Unwrap(r).queue \in DOMAIN queues
                     /\ \E i \in EntriesWithId(queues[Unwrap(r).queue], Unwrap(r).id) :
                           queues[Unwrap(r).queue].jobs[i].job = Unwrap(r).job)
    /\ [][(IsSome(claim') /\ claim' # claim) => queues' = queues]_vars

\* A claimed entry is pending in the queue the claim names.
C2_ClaimedEntryPending ==
    /\ IsSome(claim)
    /\ Unwrap(claim).queue = "pinned"
    /\ EntriesWithId(queues["pinned"], Unwrap(claim).id) # {}
    /\ queues["short"].jobs # << >>

\* C3: an entry returned by try_take_job and deleted through remove_job
\* before its commit: truly_take_job for it returns None and modifies no
\* running map, and no try_take_job returns its task id again.
C3_DeletedClaimIsNotCommitted ==
    /\ \A provider \in Providers, exlusive_mem \in BOOLEAN :
          LET r == try_take_job(queues, iter_order, provider, exlusive_mem)
          IN  IsSome(r) => Unwrap(r).id \notin orphaned
    /\ (IsSome(claim) /\ Unwrap(claim).id \in orphaned) =>
          \A received_id \in ReceivedIds, now_secs \in ClockReads :
              LET c == Unwrap(claim)
                  r == truly_take_job(queues, c.queue, c.id, received_id, c.job, now_secs)
              IN  ~IsSome(r.ret) /\ r.self = queues

\* The claimed entry was deleted and its commit is still to come, while the
\* queue it was in holds other entries.
C3_ClaimDeleted ==
    /\ IsSome(claim)
    /\ Unwrap(claim).id \in orphaned
    /\ queues[Unwrap(claim).queue].jobs # << >>

\* C4: in every reachable state of the dispatcher, the task ids in a queue's
\* pending list and the keys of its running map are disjoint.
C4_PendingRunningDisjoint ==
    \A name \in DOMAIN queues :
        PendingIdsOf(queues[name]) \cap DOMAIN queues[name].running = {}

\* A queue with a pending entry and a running job after a commit.
C4_PendingBesideRunning ==
    \E name \in DOMAIN queues :
        /\ queues[name].jobs # << >>
        /\ DOMAIN queues[name].running # {}

\* C5: a 503 "Resources not enough" answer to a submit is a failed
\* submission: in the step that consumes the answer the claimed entry stays
\* in its pending list and nothing is inserted into any running map.
C5_ResourcesNotEnoughIsFailure ==
    [][(resp = Some(ResourcesNotEnough) /\ resp' # resp) =>
          /\ Unwrap(claim).id \in PendingIdsOf(queues'[Unwrap(claim).queue])
          /\ \A name \in DOMAIN queues : queues'[name].running = queues[name].running]_vars

\* C6: the control loop does not hold the QueueGroup write lock while a
\* vertex RPC (free, submit_job, jobs) is in flight, so that an admin
\* handler can take the lock and complete its request.
C6_NoLockAcrossRpc ==
    pc \in {"free", "submit", "jobs"} => lock = "free"

\* C7: whatever the outcome of a submit_job, transport failures that persist
\* included, the dispatch loop of the vertex terminates and the control loop
\* goes on to poll jobs().
C7_DispatchLoopTerminates ==
    (pc = "submit") ~> (pc = "jobs")

\* The entries gathered by try_take_job that the provider accepts.
AcceptedBy(submitables, provider, exlusive_mem) ==
    {i \in 1..Len(submitables) :
        IF exlusive_mem
        THEN execlusive_mem_acceptable(provider, submitables[i].job.requirement)
        ELSE acceptable(provider, submitables[i].job.requirement)}

\* C8: try_take_job returns None iff no submittable entry of any queue is
\* accepted by the provider; the entry it returns is submittable, accepted,
\* and no submittable accepted entry has a strictly higher priority.
C8_TryTakeJobReturnsBestAccepted ==
    \A provider \in Providers, exlusive_mem \in BOOLEAN :
        LET submitables == submitables_from(queues, iter_order, 1)
            accepted == AcceptedBy(submitables, provider, exlusive_mem)
            r == try_take_job(queues, iter_order, provider, exlusive_mem)
        IN  /\ ~IsSome(r) <=> accepted = {}
            /\ IsSome(r) =>
                  \E i \in accepted :
                      /\ submitables[i].id = Unwrap(r).id
                      /\ submitables[i].job = Unwrap(r).job
                      /\ submitables[i].queue = Unwrap(r).queue
                      /\ \A j \in accepted : submitables[j].priority <= submitables[i].priority

\* A provider accepts two submittable entries of different priorities, the
\* one of lower priority gathered first.
C8_TwoAcceptedPriorities ==
    \E provider \in Providers, exlusive_mem \in BOOLEAN :
        LET submitables == submitables_from(queues, iter_order, 1)
            accepted == AcceptedBy(submitables, provider, exlusive_mem)
        IN  \E i, j \in accepted :
                i < j /\ submitables[i].priority < submitables[j].priority

\* C9: in a queue whose only rule is WaitingRule(1.0), of two queued entries
\* with the same requirement the one queued earlier has the higher priority,
\* and a try_take_job with a provider that accepts both does not return the
\* later one.
C9_EarlierQueuedFirst ==
    LET queued == jobs_in_queue(queues["short"])
    IN  \A i, j \in 1..Len(queued) :
            (/\ queued[i].job.requirement = queued[j].job.requirement
             /\ queued[i].waited < queued[j].waited) =>
                /\ queued[i].priority > queued[j].priority
                /\ \A provider \in Providers :
                      acceptable(provider, queued[i].job.requirement) =>
                          LET r == try_take_job(queues, iter_order, provider, FALSE)
                          IN  IsSome(r) => Unwrap(r).id # queued[j].id

\* The running jobs of a queue that pass Test.
RunningWhere(queue, Test(_)) ==
    Cardinality({id \in DOMAIN queue.running : Test(queue.running[id])})

Below(n, limit) == IsSome(limit) => n < Unwrap(limit).max_running
AtMost(n, limit) == IsSome(limit) => n <= Unwrap(limit).max_running

\* C10: the running caps are enforced against the running map:
\* jobs_submitable returns an entry only while the queue's running jobs are
\* below global_limit.max_running, its owner's below user_limit.max_running
\* and its group's below group_limit.max_running; so no running map ever
\* holds more jobs than these caps, in all, of one uid or of one gid.
C10_RunningCapsEnforced ==
    \A name \in DOMAIN queues :
        LET queue == queues[name]
            conf == queue.configuration
            submitables == jobs_submitable(queue)
        IN  /\ \A i \in 1..Len(submitables) :
                  /\ Below(RunningWhere(queue, LAMBDA job : TRUE), conf.global_limit)
                  /\ Below(RunningWhere(queue, LAMBDA job : job.uid = submitables[i].job.uid),
                           conf.user_limit)
                  /\ Below(RunningWhere(queue, LAMBDA job : job.gid = submitables[i].job.gid),
                           conf.group_limit)
            /\ AtMost(RunningWhere(queue, LAMBDA job : TRUE), conf.global_limit)
            /\ \A id \in DOMAIN queue.running :
                  /\ AtMost(RunningWhere(queue, LAMBDA job : job.uid = queue.running[id].uid),
                            conf.user_limit)
                  /\ AtMost(RunningWhere(queue, LAMBDA job : job.gid = queue.running[id].gid),
                            conf.group_limit)

\* ------------------------------------------------- a queue without limits

\* A persistent file written under a configuration whose queue short has
\* no global_limit, no user_limit and no group_limit.
PersistedUnlimited ==
    [ short |->
        [ configuration |-> [ConfiguredQueues["short"] EXCEPT !.global_limit = None,
                                                              !.user_limit = None,
                                                              !.group_limit = None],
          jobs |-> << Entry(PersistedId(1), Job(1000, 1000, ReqOneCpu), Some(0)),
                      Entry(PersistedId(2), Job(1001, 1001, ReqOneCpu), None) >>,
          running |-> EmptyMap ],
      pinned |->
        [ configuration |-> ConfiguredQueues["pinned"],
          jobs |-> << Entry(PersistedId(3), Job(1000, 1000, ReqPinned), Some(1)) >>,
          running |-> EmptyMap ] ]

UnlimitedInit == Startup(PersistedUnlimited, << "v1" >>)

UnlimitedSpec == UnlimitedInit /\ [][ApiNext]_vars

NoLimits(configuration) ==
    /\ ~IsSome(configuration.global_limit)
    /\ ~IsSome(configuration.user_limit)
    /\ ~IsSome(configuration.group_limit)

\* C11: a missing limit means unlimited: in a queue without global_limit,
\* user_limit and group_limit, queueable holds for every uid and gid,
\* refresh_jobs promotes every held entry and jobs_submitable returns every
\* queued entry.
C11_MissingLimitIsUnlimited ==
    \A name \in DOMAIN queues :
        NoLimits(queues[name].configuration) =>
            /\ \A ucred \in Peers : queueable(queues[name], ucred.uid, ucred.gid)
            /\ jobs_submitable(queues[name]) = jobs_in_queue(queues[name])
            /\ \A now_secs \in ClockReads :
                   LET refreshed == refresh_jobs(queues[name], now_secs)
                   IN  \A i \in 1..Len(refreshed.jobs) : IsSome(refreshed.jobs[i].admitted)

\* The queued entries of a queue that pass Test.
QueuedWhere(queue, Test(_)) == Len(SelectSeq(jobs_in_queue(queue), Test))

WithinQueue(n, limit) == IsSome(limit) => n <= Unwrap(limit).max_queue

\* The queued entries of the queue are within max_queue of its global
\* limit, and those of every uid and gid within that of the user and group
\* limits.
WithinQueueCaps(queue) ==
    /\ WithinQueue(QueuedWhere(queue, LAMBDA e : TRUE), queue.configuration.global_limit)
    /\ \A i \in 1..Len(queue.jobs) :
          /\ WithinQueue(QueuedWhere(queue, LAMBDA e : e.job.uid = queue.jobs[i].job.uid),
                         queue.configuration.user_limit)
          /\ WithinQueue(QueuedWhere(queue, LAMBDA e : e.job.gid = queue.jobs[i].job.gid),
                         queue.configuration.group_limit)

\* C12: refresh_jobs promotes a held entry only while it is queueable: from
\* queues within their caps, after any sequence of add, remove and
\* truly_take_job every queue is within its max_queue caps, and a
\* refresh_jobs in that state ends within the caps with no held entry left
\* that is queueable.
C12_QueuedWithinCaps ==
    \A name \in DOMAIN queues :
        /\ WithinQueueCaps(queues[name])
        /\ \A now_secs \in ClockReads :
               LET refreshed == refresh_jobs(queues[name], now_secs)
               IN  /\ WithinQueueCaps(refreshed)
                   /\ Len(refreshed.jobs) = Len(queues[name].jobs)
                   /\ \A i \in 1..Len(refreshed.jobs) :
                          \/ IsSome(refreshed.jobs[i].admitted)
                          \/ ~queueable(refreshed, refreshed.jobs[i].job.uid,
                                        refreshed.jobs[i].job.gid)

\* After a commit promoted an entry, its owner is at the user cap and
\* another entry of the same owner stays held.
C12_HeldAtCap ==
    \E name \in DOMAIN queues :
        LET queue == queues[name]
        IN  /\ DOMAIN queue.running # {}
            /\ \E i, j \in 1..Len(queue.jobs) :
                  /\ ~IsSome(queue.jobs[i].admitted)
                  /\ queue.jobs[j].admitted = Some(now)
                  /\ queue.jobs[j].job.uid = queue.jobs[i].job.uid
                  /\ IsSome(queue.configuration.user_limit)
                  /\ QueuedWhere(queue, LAMBDA e : e.job.uid = queue.jobs[i].job.uid)
                         = Unwrap(queue.configuration.user_limit).max_queue


\* A requirement whose properties conflict with those of the queue "pinned".
ReqOtherArch == Requirement(Use(1), Auto, EmptyMap, [arch |-> "arm"])

\* The jobs add_to_queue is asked about: the callers' jobs and one that
\* conflicts.
OfferedJobs == JobPool \cup { Job(1000, 1000, ReqOtherArch) }

\* The condition of acceptance: the queue exists, its users and groups allow
\* the job's ids, and no property of the queue has another value in the job.
Acceptable(self, queue, job) ==
    /\ queue \in DOMAIN self
    /\ allow(self[queue].configuration.users, job.uid)
    /\ allow(self[queue].configuration.groups, job.gid)
    /\ \A key \in DOMAIN self[queue].configuration.properties :
           key \in DOMAIN job.requirement.properties =>
               job.requirement.properties[key] = self[queue].configuration.properties[key]

\* C13: add_to_queue accepts a job exactly when the queue exists, users and
\* groups allow its ids and its properties do not conflict with the queue's;
\* on acceptance exactly one held entry under an unused task id is appended
\* at the end of that queue's pending list and nothing else changes; on
\* refusal the QueueGroup is unchanged and the SubmitJob handler answers
\* SubmitFailed.
C13_AddAcceptsIffAllowed ==
    LET task_id == DispatcherId(issued + 1)
    IN  /\ task_id \notin PendingIds(queues) \cup RunningIds(queues)
        /\ \A queue \in QueueArgs, job \in OfferedJobs :
               LET added == add_to_queue(queues, queue, job, task_id)
               IN  IF Acceptable(queues, queue, job)
                   THEN /\ added.ret = Some(task_id)
                        /\ DOMAIN added.self = DOMAIN queues
                        /\ \A name \in DOMAIN queues \ {queue} : added.self[name] = queues[name]
                        /\ added.self[queue].running = queues[queue].running
                        /\ added.self[queue].configuration = queues[queue].configuration
                        /\ Len(added.self[queue].jobs) = Len(queues[queue].jobs) + 1
                        /\ SubSeq(added.self[queue].jobs, 1, Len(queues[queue].jobs)) = queues[queue].jobs
                        /\ added.self[queue].jobs[Len(queues[queue].jobs) + 1].id = task_id
                        /\ added.self[queue].jobs[Len(queues[queue].jobs) + 1].admitted = None
                   ELSE /\ added.ret = None
                        /\ added.self = queues
        /\ \A queue \in QueueArgs, sent \in OfferedJobs :
               LET ucred == [uid |-> sent.uid, gid |-> sent.gid]
                   handled == handle_submit_job(queues, queue, sent, ucred, task_id)
               IN  ~Acceptable(queues, queue, sent) =>
                       /\ handled.response = Response("SubmitFailed", "")
                       /\ handled.self = queues

\* An accepted add has appended its held entry, while in the same state an
\* unknown queue, a user the queue does not allow and a conflicting job are
\* refused.
C13_AcceptedAndRefused ==
    /\ \E name \in DOMAIN queues :
           /\ Len(queues[name].jobs) > 1
           /\ queues[name].jobs[Len(queues[name].jobs)].id = DispatcherId(1)
           /\ queues[name].jobs[Len(queues[name].jobs)].admitted = None
    /\ ~Acceptable(queues, "nosuch", Job(1000, 1000, ReqOneCpu))
    /\ ~Acceptable(queues, "pinned", Job(1001, 1001, ReqOneCpu))
    /\ ~Acceptable(queues, "pinned", Job(1000, 1000, ReqOtherArch))
    /\ Acceptable(queues, "pinned", Job(1000, 1000, ReqPinned))


\* C14: every entry admitted through add_to_queue carries, in the properties
\* of its stored requirement, every key and value of the properties its
\* queue is configured with.
C14_StoredEntryCarriesQueueProperties ==
    \A name \in DOMAIN queues : \A i \in 1..Len(queues[name].jobs) :
        queues[name].jobs[i].id \in {DispatcherId(n) : n \in 1..issued} =>
            \A key \in DOMAIN queues[name].configuration.properties :
                /\ key \in DOMAIN queues[name].jobs[i].job.requirement.properties
                /\ queues[name].jobs[i].job.requirement.properties[key] =
                       queues[name].configuration.properties[key]


\* The pending entries of the QueueGroup under task_id.
PendingUnder(self, task_id) ==
    UNION { {self[name].jobs[i] : i \in {k \in 1..Len(self[name].jobs) : self[name].jobs[k].id = task_id}} :
            name \in DOMAIN self }

\* The QueueGroup without the pending entries under task_id.
WithoutPending(self, task_id) ==
    [name \in DOMAIN self |->
        [self[name] EXCEPT !.jobs = SelectSeq(self[name].jobs, LAMBDA e : e.id # task_id)]]

\* The number of pending entries of the QueueGroup.
RECURSIVE PendingCount(_, _)
PendingCount(self, names) ==
    IF names = {} THEN 0
    ELSE LET name == CHOOSE n \in names : TRUE
         IN  Len(self[name].jobs) + PendingCount(self, names \ {name})

\* C15: DeleteJob(task_id) from uid removes exactly the pending entry under
\* task_id and succeeds when uid is 0 or the entry's owner; answers
\* PermissionDenied and changes nothing when the entry is pending and owned
\* by another uid; answers NotFound and changes nothing when task_id is not
\* pending, also when it is a key of a running map.
C15_RemoveJobOutcomes ==
    \A task_id \in KnownIds \cup RunningIds(queues) \cup {DispatcherId(issued + 1)}, ucred \in Peers :
        LET handled == handle_delete_job(queues, iter_order, task_id, ucred)
            pending == PendingUnder(queues, task_id)
        IN  IF pending = {}
            THEN /\ handled.response = Response("DeleteFailed", "NotFound")
                 /\ handled.self = queues
            ELSE IF ucred.uid = 0 \/ \E e \in pending : e.job.uid = ucred.uid
            THEN /\ handled.response = Response("DeleteSuccess", "")
                 /\ handled.self = WithoutPending(queues, task_id)
                 /\ PendingCount(handled.self, DOMAIN queues) = PendingCount(queues, DOMAIN queues) - 1
            ELSE /\ handled.response = Response("DeleteFailed", "PermissionDenied")
                 /\ handled.self = queues

\* A claimed entry has been deleted, and in the same state one pending entry
\* belongs to uid 1000 (deletable by 1000 and 0, not by 1001) and a running
\* map holds a job (not found by DeleteJob).
C15_DeletedDeniedAndRunning ==
    /\ orphaned # {}
    /\ \E name \in DOMAIN queues : \E i \in 1..Len(queues[name].jobs) :
           queues[name].jobs[i].job.uid = 1000
    /\ RunningIds(queues) # {}
    /\ RunningIds(queues) \cap PendingIds(queues) = {}


\* C16: refresh_running(R) leaves in every queue's running map exactly the
\* previous entries whose key is in R, with their values, and leaves the
\* pending lists and the configurations as they were.
C16_RefreshRunningRestricts ==
    \A running_ids \in SUBSET (ReceivedIds \cup PendingIds(queues)) :
        LET refreshed == refresh_running(queues, running_ids)
        IN  /\ DOMAIN refreshed = DOMAIN queues
            /\ \A name \in DOMAIN queues :
                   /\ DOMAIN refreshed[name].running =
                          {id \in DOMAIN queues[name].running : id \in running_ids}
                   /\ \A id \in DOMAIN refreshed[name].running :
                          refreshed[name].running[id] = queues[name].running[id]
                   /\ refreshed[name].jobs = queues[name].jobs
                   /\ refreshed[name].configuration = queues[name].configuration

\* A running map holds a job beside pending entries: refresh_running with a
\* set that lacks its key drops it, and with its key keeps it.
C16_RunningDroppedOrKept ==
    /\ RunningIds(queues) # {}
    /\ PendingIds(queues) # {}
    /\ refresh_running(queues, PendingIds(queues)) # queues
    /\ RunningIds(refresh_running(queues, PendingIds(queues))) = {}
    /\ refresh_running(queues, RunningIds(queues)) = queues


\* C17: a tick whose jobs() poll succeeds leaves in no running map a job that
\* has terminated on the polled vertex (Finished or Error).
C17_TerminatedJobsLeaveRunning ==
    [][LoopJobsOk =>
           \A id \in DOMAIN vjobs[Vertex] :
               vjobs[Vertex][id].status \in {"Finished", "Error"} =>
                   id \notin RunningIds(queues')]_vars


\* C18: whatever the value of vertex_lost, a vertex whose last answer to
\* free() is older than vertex_lost is skipped by the tick that reaches it
\* (the loop does not go on to submit jobs to it), and a tick in which the
\* vertex answers neither free() nor jobs() removes nothing from the running
\* maps.
C18_LostVertexIsSkipped ==
    [][/\ \A vertex_lost \in 0..MaxTime :
              (pc = "free" /\ now - last_connected[Vertex] > vertex_lost) => pc' # "try"
       /\ (pc = "jobs" /\ LoopJobsErr) => queues' = queues]_vars


\* A persistent file with one job for each vertex.
PersistedTwoArchs ==
    [ short |->
        [ configuration |-> ConfiguredQueues["short"],
          jobs |-> << Entry(PersistedId(1), Job(1000, 1000, ReqOneCpu), Some(0)),
                      Entry(PersistedId(2), Job(1001, 1001, ReqOtherArch), Some(1)) >>,
          running |-> EmptyMap ] ]

\* dispatcher() configured with the two vertexes, visited in this order.
TwoVertexInit == Startup(PersistedTwoArchs, << "v1", "v2" >>)

\* The control loop and the supervisors of the vertexes; the handlers of the
\* admin socket write none of pc, cur and request_free.
TwoVertexNext == Loop \/ SupervisorExit

TwoVertexSpec == TwoVertexInit /\ [][TwoVertexNext]_vars

\* The order of the loop's positions for one vertex: free() first, then the
\* submissions while try_take_job claims an entry, then jobs().
RpcOrder ==
    { << "free", "try" >>, << "free", "jobs" >>, << "try", "submit" >>, << "try", "jobs" >>,
      << "submit", "commit" >>, << "submit", "try" >>, << "commit", "try" >>,
      << "jobs", "free" >> }

\* C19: for one vertex in one tick the loop calls free(), then submit_job()
\* zero or more times, then jobs(); it calls submit_job() only with the
\* answer of a successful free() of that vertex in that tick; and it turns to
\* another vertex only after the jobs() call of the vertex it is at.
C19_RpcOrderPerVertex ==
    [][/\ pc' # pc => << pc, pc' >> \in RpcOrder
       /\ cur' # cur => (pc = "jobs" /\ pc' = "free")
       /\ (pc = "jobs" /\ pc' = "free") => cur' # cur
       /\ pc' \in {"try", "submit", "commit"} =>
              /\ IsSome(request_free')
              /\ cur' = cur
              /\ (pc = "free" \/ request_free' = request_free)
       /\ (pc = "free" /\ pc' = "try") =>
              request_free' = current_free(VertexResources[Vertex], vjobs[Vertex])
       /\ pc' \in {"free", "jobs"} => ~IsSome(request_free')]_vars

\* The loop is about to call submit_job() on the second vertex, after the
\* first one has received a job in its turn.
C19_SubmitToSecondVertex ==
    /\ Len(vertexes) = 2
    /\ cur = 2
    /\ pc = "submit"
    /\ DOMAIN vjobs["v1"] # {}


\* C20: the entry a SubmitJob from a peer with uid other than 0 stores has
\* the peer's uid and gid, whatever uid and gid the request carried, and the
\* requirement of the request; the entry a SubmitJob from uid 0 stores is the
\* job of the request.
C20_StoredCredentialsArePeers ==
    \A queue \in QueueArgs, sent \in SentJobs, ucred \in Peers :
        LET task_id == DispatcherId(issued + 1)
            handled == handle_submit_job(queues, queue, sent, ucred, task_id)
        IN  handled.response.kind = "SubmitSuccess" =>
                LET stored == handled.self[queue].jobs[Len(handled.self[queue].jobs)]
                IN  /\ handled.response = Response("SubmitSuccess", task_id)
                    /\ stored.id = task_id
                    /\ stored.job.requirement = sent.requirement
                    /\ IF ucred.uid # 0
                       THEN stored.job.uid = ucred.uid /\ stored.job.gid = ucred.gid
                       ELSE stored.job = sent

\* The admin socket has stored a job under uid 1001 and gid 1001 although
\* no request carries this uid or gid.
C20_RequestUidOverwritten ==
    /\ \A sent \in SentJobs : sent.uid # 1001 /\ sent.gid # 1001
    /\ \E name \in DOMAIN queues : \E i \in 1..Len(queues[name].jobs) :
           /\ queues[name].jobs[i].id = DispatcherId(1)
           /\ queues[name].jobs[i].job.uid = 1001
           /\ queues[name].jobs[i].job.gid = 1001


\* The responses that answer a request of each kind.
MatchingResponses(kind) ==
    CASE kind = "SubmitJob" -> {"SubmitSuccess", "SubmitFailed"}
      [] kind = "DeleteJob" -> {"DeleteSuccess", "DeleteFailed"}
      [] kind = "Status" -> {"Status"}
      [] OTHER -> {"InvalidRequest"}

\* C21: a connection of the admin socket whose request parses is closed with
\* exactly one response of the kind of its request written to it, no
\* connection is written more than one response, and the admin task stays
\* alive to accept the later connections.
C21_ParsedRequestAnsweredOnce ==
    /\ admin.pc # "dead"
    /\ \A c \in Clients :
           /\ Len(answers[c]) <= 1
           /\ (conn[c].state = "closed" /\ IsSome(request[c])
                   /\ Unwrap(request[c]).kind \in {"SubmitJob", "DeleteJob", "Status"}) =>
                  /\ Len(answers[c]) = 1
                  /\ answers[c][1].kind \in MatchingResponses(Unwrap(request[c]).kind)


\* C22: a client that has sent its whole request is answered (its connection
\* is closed by the admin task) whatever the other clients do, also when
\* another client has connected before and never finishes its request; the
\* death of the admin task is left aside.
C22_StalledClientDoesNotBlock ==
    \A c \in Clients :
        (conn[c].state = "connected" /\ IsSome(request[c]))
            ~> (conn[c].state = "closed" \/ admin.pc = "dead")

\* ------------------------------------------------- the vertexes by themselves

\* vertex(): the vertexes start with an empty history; no dispatcher loop runs.
VertexInit == Startup(EmptyMap, << >>)

VertexNext == VertexSubmitJob \/ SupervisorExit

VertexSpec == VertexInit /\ [][VertexNext]_vars


\* C23: POST /job is answered 200 with a fresh task id, and one Running
\* entry of the posting user under this id is added, exactly when
\* current_free(state).acceptable(job.requirement) holds; otherwise it is
\* answered 503 and the jobs map is unchanged.
C23_AcceptedIffAcceptable ==
    [][\A v \in Vertices, username \in Users, job \in VertexJobs :
           VertexSubmit(v, username, job) =>
               LET free == current_free(VertexResources[v], vjobs[v])
               IN  /\ IsSome(free)
                   /\ IsSome(vresp')
                   /\ IF acceptable(Unwrap(free), job.requirement)
                      THEN /\ Unwrap(vresp').status = 200
                           /\ Unwrap(vresp').body \notin DOMAIN vjobs[v]
                           /\ DOMAIN vjobs'[v] = DOMAIN vjobs[v] \cup {Unwrap(vresp').body}
                           /\ vjobs'[v][Unwrap(vresp').body].status = "Running"
                           /\ vjobs'[v][Unwrap(vresp').body].user = username
                           /\ \A id \in DOMAIN vjobs[v] : vjobs'[v][id] = vjobs[v][id]
                      ELSE /\ Unwrap(vresp').status = 503
                           /\ vjobs' = vjobs]_vars


\* The Select form a requested node set takes on the free nodes: n of them
\* for Use(n), all of them for Auto, the requested set for Select.
Concretizes(set, requested, free) ==
    /\ set \subseteq free
    /\ CASE requested.kind = "Use" -> Cardinality(set) = requested.size
         [] requested.kind = "Auto" -> set = free
         [] OTHER -> set = requested.set

\* C24: every job a vertex stores as Running has its cpus and its mems in
\* Select form, and the job stored by an accepted POST /job has the cpus and
\* the mems its request takes on the nodes that were free at admission.
C24_RunningJobsConcretized ==
    /\ [](\A v \in Vertices : \A id \in RunningJobs(vjobs[v]) :
              /\ vjobs[v][id].job.requirement.cpus.kind = "Select"
              /\ vjobs[v][id].job.requirement.mems.kind = "Select")
    /\ [][\A v \in Vertices, username \in Users, job \in VertexJobs :
              (VertexSubmit(v, username, job) /\ IsSome(vresp') /\ Unwrap(vresp').status = 200) =>
                  LET free == Unwrap(current_free(VertexResources[v], vjobs[v]))
                      stored == vjobs'[v][Unwrap(vresp').body].job.requirement
                  IN  /\ Concretizes(stored.cpus.set, job.requirement.cpus, free.cpus)
                      /\ Concretizes(stored.mems.set, job.requirement.mems, free.mems)]_vars


\* C25 (scenario S4): on the vertex with cpus {0,1,2,3}, mems {0} and memory
\* 8, a job {cpus: Use(2), mems: Auto, memory: 4} posted to the empty vertex
\* is answered 200, and the same job posted while the first is the vertex's
\* only entry and Running is answered 503 and adds no entry.
C25_SecondHalfJobRefused ==
    [][\A username \in Users :
           VertexSubmit("v3", username, Job(1000, 1000, ReqHalf)) =>
               /\ vjobs["v3"] = EmptyMap =>
                      (IsSome(vresp') /\ Unwrap(vresp').status = 200)
               /\ (\E id \in DOMAIN vjobs["v3"] :
                       /\ DOMAIN vjobs["v3"] = {id}
                       /\ vjobs["v3"][id].status = "Running"
                       /\ vjobs["v3"][id].job.uid = 1000
                       /\ vjobs["v3"][id].job.requirement.countables = ReqHalf.countables
                       /\ Cardinality(vjobs["v3"][id].job.requirement.cpus.set) = 2) =>
                      /\ IsSome(vresp')
                      /\ Unwrap(vresp').status = 503
                      /\ vjobs' = vjobs]_vars


\* The countable k the Running jobs of a vertex demand together.
RECURSIVE RunningDemand(_, _, _)
RunningDemand(jobs, ids, k) ==
    IF ids = {} THEN 0
    ELSE LET id == CHOOSE x \in ids : TRUE
             own == IF jobs[id].status = "Running" /\ k \in DOMAIN jobs[id].job.requirement.countables
                    THEN jobs[id].job.requirement.countables[k] ELSE 0
         IN  own + RunningDemand(jobs, ids \ {id}, k)

\* C26: in every state of a vertex current_free has a value, which is the
\* configured provider less the demand of the Running jobs: cpus and mems by
\* set difference, each countable by subtraction floored at 0, properties as
\* configured; Finished and Error jobs subtract nothing.  Hence an accepted
\* job enlarges none of cpus, mems and the countables, and the exit of a
\* supervisor shrinks none of them.
C26_CurrentFreeIsProviderMinusRunning ==
    /\ [](\A v \in Vertices :
              LET free == current_free(VertexResources[v], vjobs[v])
                  running == {id \in DOMAIN vjobs[v] : vjobs[v][id].status = "Running"}
              IN  /\ IsSome(free)
                  /\ Unwrap(free).cpus =
                         {n \in VertexResources[v].cpus :
                             \A id \in running : n \notin vjobs[v][id].job.requirement.cpus.set}
                  /\ Unwrap(free).mems =
                         {n \in VertexResources[v].mems :
                             \A id \in running : n \notin vjobs[v][id].job.requirement.mems.set}
                  /\ \A k \in DOMAIN VertexResources[v].countables :
                         Unwrap(free).countables[k] =
                             Max0(VertexResources[v].countables[k] - RunningDemand(vjobs[v], DOMAIN vjobs[v], k))
                  /\ Unwrap(free).properties = VertexResources[v].properties)
    /\ [][\A v \in Vertices :
              LET before == Unwrap(current_free(VertexResources[v], vjobs[v]))
                  after == Unwrap(current_free(VertexResources[v], vjobs'[v]))
                  Within(small, large) ==
                      /\ small.cpus \subseteq large.cpus
                      /\ small.mems \subseteq large.mems
                      /\ \A k \in DOMAIN VertexResources[v].countables :
                             small.countables[k] <= large.countables[k]
              IN  /\ DOMAIN vjobs'[v] # DOMAIN vjobs[v] => Within(after, before)
                  /\ (DOMAIN vjobs'[v] = DOMAIN vjobs[v] /\ vjobs'[v] # vjobs[v]) => Within(before, after)]_vars


\* C27: an entry enters a vertex's jobs map as Running; the exit of its
\* supervisor turns it, under the same key and for the same user and job,
\* into Finished when the supervisor succeeded and into Error otherwise; a
\* Finished or Error entry never changes again, and no entry ever leaves the
\* map.
C27_JobStatusMachine ==
    [][\A v \in Vertices :
           /\ DOMAIN vjobs[v] \subseteq DOMAIN vjobs'[v]
           /\ \A id \in DOMAIN vjobs'[v] \ DOMAIN vjobs[v] : vjobs'[v][id].status = "Running"
           /\ \A id \in DOMAIN vjobs[v] \cap DOMAIN vjobs'[v] :
                  /\ vjobs'[v][id].job = vjobs[v][id].job
                  /\ vjobs'[v][id].user = vjobs[v][id].user
                  /\ vjobs[v][id].status # "Running" => vjobs'[v][id] = vjobs[v][id]
                  /\ vjobs'[v][id].status \in {"Running", "Finished", "Error"}
                  /\ \A success \in BOOLEAN :
                         SupervisorExits(v, id, success) =>
                             vjobs'[v][id].status = IF success THEN "Finished" ELSE "Error"]_vars

\* A vertex holds a Finished and an Error entry, both accepted as Running
\* before.
C27_FinishedAndError ==
    \E v \in Vertices : \E id, other \in DOMAIN vjobs[v] :
        /\ vjobs[v][id].status = "Finished"
        /\ vjobs[v][other].status = "Error"

\* ------------------------------------------- the supervisor and the executor

\* ExecutePhase, by its kind.
PhaseKinds == {"Sh", "Run", "WorkDir", "Env"}

\* JobConfiguration.phases
PhaseLists == UNION {[1..n -> PhaseKinds] : n \in 0..MaxPhases}

\* countables.get("time_limit"), in seconds; 0 also when the job names none
TimeLimits == {0, 1}

\* What the system makes of a phase: the command of Sh or Run exits 0
\* ("zero"), exits with another code ("nonzero") or cannot be spawned
\* ("nospawn"); the directory of WorkDir is entered ("entered") or cannot be
\* ("noenter"); the variables of Env are set ("set").
Outcomes(kind) ==
    CASE kind \in {"Sh", "Run"} -> {"zero", "nonzero", "nospawn"}
      [] kind = "WorkDir" -> {"entered", "noenter"}
      [] OTHER -> {"set"}

\* ExecutePhase::execute: Err only when spawn or set_current_dir is Err; the
\* ExitStatus child.wait() returns is dropped by map(|_| ()).
phase_execute(kind, outcome) ==
    IF outcome \in {"nospawn", "noenter"} THEN "Err" ELSE "Ok"

\* The waiter thread of the vertex: exit_status.success() of the supervisor
waiter_records(exit) == IF exit = 0 THEN "Finished" ELSE "Error"

OtherVars ==
    << qvars, claim, orphaned, last_connected, lvars, vvars, avars, vresp, cmp, posts, file >>

\* supervisor(task_id, data): the job is parsed, the cgroup and the log files
\* are set up and the executor is spawned.
SupervisorStart ==
    \E phases \in PhaseLists, time_limit \in TimeLimits :
        /\ run = NoRun
        /\ run' = [NoRun EXCEPT !.phases = phases, !.time_limit = time_limit,
                                !.executor = "running", !.supervisor = "running",
                                !.cgroup = "created"]
        /\ UNCHANGED OtherVars

\* One of the unwrap() or the panic!() of the set-up fails: the supervisor
\* ends before it spawns the executor, with the exit code of a panic.  The
\* parse and the build of the cgroup fail before there is a cgroup; entering
\* it, opening and chown-ing the log files and the spawn fail after.
SupervisorPanics ==
    /\ run = NoRun
    /\ \E cgroup \in {"none", "created"} :
           run' = [NoRun EXCEPT !.supervisor = "exited", !.exit = 101, !.cgroup = cgroup]
    /\ UNCHANGED OtherVars

\* JobConfiguration::execute: the executor executes the phase it is at; an
\* Err is returned by ? and the unwrap() in executor() panics.
ExecutorPhase ==
    /\ run.executor = "running"
    /\ run.next <= Len(run.phases)
    /\ \E outcome \in Outcomes(run.phases[run.next]) :
          LET executed == Append(run.executed, [phase |-> run.next, outcome |-> outcome])
          IN  run' = IF phase_execute(run.phases[run.next], outcome) = "Ok"
                     THEN [run EXCEPT !.executed = executed, !.next = run.next + 1]
                     ELSE [run EXCEPT !.executed = executed, !.executor = "exited", !.code = 101]
    /\ UNCHANGED OtherVars

\* JobConfiguration::execute returns Ok(()) after the last phase and the
\* executor exits.
ExecutorExit ==
    /\ run.executor = "running"
    /\ run.next > Len(run.phases)
    /\ run' = [run EXCEPT !.executor = "exited", !.code = 0]
    /\ UNCHANGED OtherVars

\* A second of the supervisor's timeout(Duration::from_secs(time_limit), ..)
\* passes.
SupervisorSleep ==
    /\ run.supervisor = "running"
    /\ run.elapsed < run.time_limit
    /\ run' = [run EXCEPT !.elapsed = run.elapsed + 1]
    /\ UNCHANGED OtherVars

\* timeout(..) is Ok(exit_status): the executor has exited; the supervisor
\* prints the status, cleans the cgroup and returns.
SupervisorWaited ==
    /\ run.supervisor = "running"
    /\ run.executor = "exited"
    /\ run' = [run EXCEPT !.supervisor = "exited", !.exit = 0, !.cgroup = "deleted"]
    /\ UNCHANGED OtherVars

\* timeout(..) is Err(Elapsed): time_limit seconds have passed with the
\* executor running; the supervisor kills it, cleans the cgroup and returns.
SupervisorTimeLimit ==
    /\ run.supervisor = "running"
    /\ run.executor = "running"
    /\ run.elapsed = run.time_limit
    /\ run' = [run EXCEPT !.executor = "killed", !.supervisor = "exited", !.exit = 0,
                           !.cgroup = "deleted"]
    /\ UNCHANGED OtherVars

SupervisorInit == Startup(EmptyMap, << >>)

SupervisorNext ==
    \/ SupervisorStart
    \/ SupervisorPanics
    \/ ExecutorPhase
    \/ ExecutorExit
    \/ SupervisorSleep
    \/ SupervisorWaited
    \/ SupervisorTimeLimit

SupervisorSpec == SupervisorInit /\ [][SupervisorNext]_vars


\* C28: a supervisor that has exited has the exit code of its executor, and a
\* non-zero one when it killed the executor at the time limit; so the vertex
\* records Error, not Finished, for a job whose executor was killed or exited
\* non-zero.
C28_SupervisorExitsWithExecutorStatus ==
    (run.supervisor = "exited" /\ run.executor # "none") =>
        /\ run.executor = "exited" => run.exit = run.code
        /\ run.executor = "killed" => run.exit # 0
        /\ (run.executor = "killed" \/ run.code # 0) => waiter_records(run.exit) = "Error"

\* C29: the executor of a job whose time limit is 0 is never killed by the
\* supervisor.
C29_NoTimeLimitNoKill ==
    run.time_limit = 0 => run.executor # "killed"

\* C30: the executor executes the phases in their listed order, and a failed
\* phase is the last one it executes: the executor has then exited with a
\* non-zero code (or has been killed).
C30_FailedPhaseEndsSequence ==
    /\ \A i \in DOMAIN run.executed : run.executed[i].phase = i
    /\ \A i \in DOMAIN run.executed :
           run.executed[i].outcome \in {"nonzero", "nospawn", "noenter"} =>
               /\ i = Len(run.executed)
               /\ run.executor \in {"exited", "killed"}
               /\ run.executor = "exited" => run.code # 0

\* ------------------------------------- the comparison with a node set

\* cpus_acceptable and mems_acceptable of a provider whose cpus and mems are
\* the set T, for the requirement N: N <= Select(T).  N is any
\* NodesRequirement and T any set over the nodes 0..MaxNode.
Compare ==
    /\ \E N \in {Auto} \cup {Select(S) : S \in SUBSET (0..MaxNode)}
                     \cup {Use(n) : n \in 0..(MaxNode + 1)},
          T \in SUBSET (0..MaxNode) :
           LET provider == [cpus |-> T, mems |-> T, countables |-> EmptyMap,
                            properties |-> EmptyMap]
           IN  cmp' = Some([requirement |-> N, nodes |-> T,
                            cpus |-> cpus_acceptable(provider, N),
                            mems |-> mems_acceptable(provider, N)])
    /\ UNCHANGED << qvars, claim, orphaned, last_connected, lvars, vvars, avars, vresp,
                    run, posts, file >>

CompareSpec == Startup(EmptyMap, << >>) /\ [][Compare]_vars

\* C31: N <= Select(T), as cpus_acceptable and mems_acceptable compute it, is
\* true exactly when N is Auto and T is not empty, or N is Select(S) with S a
\* subset of T, or N is Use(n) with n at most the size of T.
C31_LeSelectOfNodeSet ==
    IsSome(cmp) =>
        LET N == Unwrap(cmp).requirement
            T == Unwrap(cmp).nodes
            stated == \/ N.kind = "Auto" /\ T # {}
                      \/ N.kind = "Select" /\ N.set \subseteq T
                      \/ N.kind = "Use" /\ N.size <= Cardinality(T)
        IN  /\ Unwrap(cmp).cpus <=> stated
            /\ Unwrap(cmp).mems <=> stated

\* ---------------------------------------- a queue with a job of cpus Auto

\* A persistent file whose queue short holds a queued job with cpus Auto
\* (priority 1) before a queued job with cpus Use(1) (priority 2), and whose
\* queue pinned holds a queued job with cpus Use(1) (priority 2 as well).
PersistedAutoCpus ==
    [ short |->
        [ configuration |-> ConfiguredQueues["short"],
          jobs |-> << Entry(PersistedId(1),
                            Job(1000, 1000, Requirement(Auto, Select({0}), EmptyMap, EmptyMap)),
                            Some(1)),
                      Entry(PersistedId(2), Job(1001, 1001, ReqOneCpu), Some(2)) >>,
          running |-> EmptyMap ],
      pinned |->
        [ configuration |-> ConfiguredQueues["pinned"],
          jobs |-> << Entry(PersistedId(3), Job(1000, 1000, ReqOneCpu), Some(0)) >>,
          running |-> EmptyMap ] ]

AutoCpusSpec == Startup(PersistedAutoCpus, << "v1" >>) /\ [][ApiNext]_vars

\* The providers compared: every combination of these cpus, mems, countables
\* and properties.
ComparedProviders ==
    { [cpus |-> c, mems |-> m, countables |-> n, properties |-> p] :
        c \in {{}, {0}, {0, 1}}, m \in {{}, {0}},
        n \in {EmptyMap, [memory |-> 2]}, p \in {EmptyMap, [arch |-> "x86"]} }

\* P1 is componentwise at most P2.
ProviderAtMost(P1, P2) ==
    /\ P1.cpus \subseteq P2.cpus
    /\ P1.mems \subseteq P2.mems
    /\ \A k \in DOMAIN P1.countables : P1.countables[k] <= countables_get(P2.countables, k)
    /\ \A k \in DOMAIN P1.properties :
           k \in DOMAIN P2.properties /\ P2.properties[k] = P1.properties[k]

\* The priority of the entry e that try_take_job returned.
PriorityOfTaken(e) ==
    LET submitables == submitables_from(queues, iter_order, 1)
    IN  submitables[CHOOSE i \in 1..Len(submitables) :
                        submitables[i].id = e.id /\ submitables[i].queue = e.queue].priority

\* C32: for the queues as they are and providers P1 componentwise at most P2,
\* if try_take_job(P1) returns an entry then try_take_job(P2) returns an entry
\* whose priority is at least as high.
C32_TryTakeJobMonotonic ==
    \A P1, P2 \in ComparedProviders :
        ProviderAtMost(P1, P2) =>
            LET r1 == try_take_job(queues, iter_order, P1, FALSE)
                r2 == try_take_job(queues, iter_order, P2, FALSE)
            IN  IsSome(r1) =>
                    /\ IsSome(r2)
                    /\ PriorityOfTaken(Unwrap(r2)) >= PriorityOfTaken(Unwrap(r1))

\* ------------------------------------------------ startup and restart

\* A persistent file left by a dispatcher whose configuration had the queue
\* old, which the present configuration does not name.
PersistedStale ==
    [ short |->
        [ configuration |-> ConfiguredQueues["short"],
          jobs |-> << Entry(PersistedId(1), Job(1000, 1000, ReqOneCpu), Some(0)) >>,
          running |-> EmptyMap ],
      old |->
        [ configuration |-> ConfiguredQueues["short"],
          jobs |-> << Entry(PersistedId(2), Job(1001, 1001, ReqOneCpu), Some(1)) >>,
          running |-> EmptyMap ] ]

\* The dispatcher process ends and dispatcher() runs again: the state in
\* memory is built anew from the configuration and the persistent file as it
\* is; the clock, the ids already generated and the vertexes go on.  It is
\* restarted only while the vertexes have accepted fewer than MaxAccepted jobs.
Restart ==
    /\ vissued < MaxAccepted
    /\ queues' = StartupQueues(file)
    /\ iter_order' \in Permutations2(DOMAIN StartupQueues(file))
    /\ claim' = None
    /\ orphaned' = {}
    /\ lock' = "free"
    /\ pc' = "free"
    /\ cur' = 1
    /\ request_free' = None
    /\ resp' = None
    /\ last_connected' = [v \in Vertices |-> now]
    /\ UNCHANGED << vertexes, now, issued, vvars, avars, vresp, run, cmp, posts, file >>

\* The admin socket takes SubmitJob requests, the control loop runs and the
\* dispatcher is restarted.
RestartSpec ==
    Startup(PersistedStale, << "v1" >>) /\ [][AdminSubmitJob \/ Loop \/ Restart]_vars

\* C33: the QueueGroup holds exactly the queues the configuration names.
C33_ExactlyConfiguredQueues ==
    DOMAIN queues = QueueNames

\* C34: the step that ends an iteration of the control loop leaves the
\* pending list of every configured queue, and no running entry, in the
\* persistent file; and a restart gives every configured queue the pending
\* list the file holds for it and an empty running map.
C34_PendingSurviveRestart ==
    [][ LET pending(f, q) == IF q \in DOMAIN f THEN f[q].jobs ELSE << >>
            running(f, q) == IF q \in DOMAIN f THEN f[q].running ELSE EmptyMap
        IN  /\ (pc = "jobs" /\ cur = Len(vertexes) /\ pc' = "free") =>
                   \A q \in QueueNames :
                       /\ pending(file', q) = queues'[q].jobs
                       /\ running(file', q) = EmptyMap
            /\ Restart =>
                   \A q \in QueueNames :
                       /\ queues'[q].jobs = pending(file, q)
                       /\ queues'[q].running = EmptyMap ]_vars

\* C35: for the queues as they are and any provider, try_take_job returns the
\* same entry whatever the order in which the queues are visited, and of the
\* accepted submittable entries of one queue that share the priority of the
\* entry it returns, none stands before that entry in the queue's list.
C35_TiesByInsertionOrder ==
    \A provider \in ComparedProviders :
        LET r == try_take_job(queues, iter_order, provider, FALSE)
        IN  /\ \A order \in Permutations2(DOMAIN queues) :
                   try_take_job(queues, order, provider, FALSE) = r
            /\ IsSome(r) =>
                   LET queued == jobs_submitable(queues[Unwrap(r).queue])
                       at == CHOOSE i \in 1..Len(queued) : queued[i].id = Unwrap(r).id
                   IN  \A j \in 1..(at - 1) :
                           ~(/\ queued[j].priority = queued[at].priority
                             /\ acceptable(provider, queued[j].job.requirement))

\* C36: a job that a vertex V accepted leaves a queue's running map only at
\* a jobs() answer of V that does not list it; the jobs() answer of another
\* vertex never removes it.
C36_OtherVertexKeepsRunning ==
    [][ \A q \in DOMAIN queues, v \in Vertices :
            \A id \in (DOMAIN queues[q].running) \cap (DOMAIN vjobs[v]) :
                id \notin DOMAIN queues'[q].running =>
                    /\ pc = "jobs"
                    /\ Vertex = v
                    /\ id \notin DOMAIN get_jobs(vjobs[v], DispatcherUser) ]_vars

\* The entry id is held in the queue q, whose queued entries are below every
\* max_queue limit for the entry's uid and gid.
HeldBelowLimits(q, id) ==
    \E i \in 1..Len(queues[q].jobs) :
        LET e == queues[q].jobs[i]
        IN  /\ e.id = id
            /\ ~IsSome(e.admitted)
            /\ queueable(queues[q], e.job.uid, e.job.gid)

\* C37: an entry a SubmitJob added that is held in a queue whose queued
\* entries are below every max_queue limit for its uid and gid eventually is
\* queued (or has left the pending list).
C37_HeldEntryEventuallyQueued ==
    \A q \in QueueNames : \A n \in 1..MaxSubmits :
        HeldBelowLimits(q, DispatcherId(n)) ~> ~HeldBelowLimits(q, DispatcherId(n))

\* ------------------------------------------- a lost answer to submit_job

\* client.submit_job(..).await is Err although the vertex handled the
\* request and started the job: the answer did not arrive.  The vertexes
\* accept at most MaxAccepted jobs that way.
LoopSubmitLost ==
    /\ pc = "submit"
    /\ vissued < MaxAccepted
    /\ LET free == current_free(VertexResources[Vertex], vjobs[Vertex])
       IN  /\ IsSome(free)
           /\ \E answer \in submit_job_answers(Unwrap(free), Unwrap(claim).job) :
                 /\ answer.status = 200
                 /\ vjobs' = [vjobs EXCEPT ![Vertex] =
                                  MapInsert(@, VertexId(vissued + 1),
                                            [status |-> "Running", job |-> answer.job,
                                             user |-> DispatcherUser])]
    /\ vissued' = vissued + 1
    /\ resp' = None
    /\ claim' = None
    /\ pc' = "try"
    /\ UNCHANGED << qvars, orphaned, last_connected, lock, cur, request_free, avars, vresp, run, cmp, posts, file >>

\* The control loop with one vertex and the two entries of PersistedTwoUsers,
\* whose jobs differ.
LossySpec == Startup(PersistedTwoUsers, << "v1" >>) /\ [][Loop \/ LoopSubmitLost]_vars

\* The jobs on the vertexes that were started from the job of a pending
\* entry: the job itself with its cpus made concrete.
StartedFrom(job) ==
    {p \in UNION {{<< v, id >> : id \in DOMAIN vjobs[v]} : v \in Vertices} :
        [vjobs[p[1]][p[2]].job EXCEPT !.requirement.cpus = job.requirement.cpus] = job}

\* C38: of the entries the dispatcher started with, whose jobs differ, none
\* is started more than once on the vertexes.
C38_AtMostOnceDispatch ==
    \A q \in DOMAIN file : \A i \in 1..Len(file[q].jobs) :
        Cardinality(StartedFrom(file[q].jobs[i].job)) <= 1

\* ------------------------------------- POST /job served at the same time

\* submit_job up to available_resources.acceptable(..): the handler thread h
\* has read current_free for the POST /job of username to the vertex v.
HandlerReadsFree ==
    \E h \in Handlers, v \in Vertices, username \in Users :
        /\ posts[h] = None
        /\ vissued < MaxAccepted
        /\ LET free == current_free(VertexResources[v], vjobs[v])
           IN  /\ IsSome(free)
               /\ posts' = [posts EXCEPT ![h] =
                                Some([v |-> v, username |-> username,
                                      job |-> Job(1000, 1000, ReqOneCpu),
                                      free |-> Unwrap(free)])]
        /\ UNCHANGED << qvars, claim, orphaned, last_connected, lvars, vvars, avars, vresp, run, cmp, file >>

\* submit_job from the test on: with the provider it read, the handler thread
\* h answers 503, or takes the write lock, inserts the Running entry and
\* answers 200.
HandlerAnswers ==
    \E h \in Handlers :
        /\ IsSome(posts[h])
        /\ LET post == Unwrap(posts[h])
           IN  \E answer \in submit_job_answers(post.free, post.job) :
                   IF answer.status = 200
                   THEN /\ vjobs' = [vjobs EXCEPT ![post.v] =
                                         MapInsert(@, VertexId(vissued + 1),
                                                   [status |-> "Running", job |-> answer.job,
                                                    user |-> post.username])]
                        /\ vissued' = vissued + 1
                        /\ vresp' = Some([status |-> 200, body |-> VertexId(vissued + 1)])
                   ELSE /\ vresp' = Some([status |-> 503, body |-> ResourcesNotEnough])
                        /\ UNCHANGED vvars
        /\ posts' = [posts EXCEPT ![h] = None]
        /\ UNCHANGED << qvars, claim, orphaned, last_connected, lvars, avars, run, cmp, file >>

\* The handler threads of the vertexes and the waiter threads of their jobs.
HandlersSpec ==
    VertexInit /\ [][HandlerReadsFree \/ HandlerAnswers \/ SupervisorExit]_vars

\* C39: on every vertex the cpus of any two jobs that are Running are
\* disjoint, the cpus of a Running job are cpus of the vertex, and for every
\* countable of the vertex the demand of the Running jobs is at most the
\* amount configured.
C39_RunningJobsFitTheVertex ==
    \A v \in Vertices :
        LET running == RunningJobs(vjobs[v])
            cpus(id) == vjobs[v][id].job.requirement.cpus.set
        IN  /\ \A id \in running : cpus(id) \subseteq VertexResources[v].cpus
            /\ \A a, b \in running : a # b => cpus(a) \cap cpus(b) = {}
            /\ \A k \in DOMAIN VertexResources[v].countables :
                   CountableDemand(vjobs[v], running, k) <= VertexResources[v].countables[k]

\* C40: a supervisor that has exited has left no cgroup: the cgroup it
\* created is deleted.
C40_NoCgroupOutlivesSupervisor ==
    run.supervisor = "exited" => run.cgroup # "created"

====
